---- MODULE Spec2Model ----
(***************************************************************************)
(* things3_mcp: the Someday reconciler (src/src/things3_mcp/someday.py).   *)
(*                                                                         *)
(* A call of one of the module's four functions is one action.  The caller *)
(* is idle, calls a function with arguments drawn from bounded sets (the   *)
(* replies of the external store, things.py, are drawn the same way), and  *)
(* may call filter_someday_tasks / augment_someday_tasks a second time on  *)
(* the list the first call returned.  Python lists are objects: the model  *)
(* keeps a heap of list objects so that "returns its argument" and         *)
(* "appends to its argument" are visible.                                  *)
(***************************************************************************)
EXTENDS Integers, Sequences, FiniteSets, TLC

VARIABLES
    op,            \* the function called last: "idle" before any call
    runs,          \* how many times it has run (0, 1, 2)
    todo,          \* _is_in_someday_project: the todo dict passed
    isin,          \* _is_in_someday_project: the value returned
    heap,          \* list objects: reference -> contents
    arg,           \* reference of the list passed to the last call
    ret,           \* reference of the list the last call returned
    before,        \* contents of heap[arg] when the last call was entered
    input0,        \* contents of the caller's list when the first call was entered
    result1,       \* contents of the first call's result when it returned
    ctxGiven,      \* TRUE: the caller passed ctx; FALSE: ctx was None
    ctx,           \* the context in effect (passed, or built by the call)
    projectsReply, \* get_someday_context: reply of things.projects(start="Someday")
    headingsReply, \* get_someday_context: reply of things.tasks(type="heading", project=p), per p
    anytimeReply,  \* augment_someday_tasks: reply of things.anytime()
    fetched,       \* the store calls the last call made
    error,         \* the exception the last call raised, "none" when it returned
    \* the store behind the tools of server.py (things.py, the Things database)
    projectStart,  \* project -> "Anytime" or "Someday"
    headingProject,\* heading -> the project it belongs to
    tasks,         \* the to-dos of the store, each with its start bucket
    \* the tool invocation answered last, since the store last changed
    tool,          \* the tool invoked: "none" before any
    toolArgs,      \* its arguments
    output,        \* the text it returned, as a sequence of lines
    built,         \* <<c>>: c is the context the last invocation built; <<>> before any
    rebuilt,       \* the last invocation built another context than the one before it
    \* auth.py: the process environment, the module's globals, one request
    environ,       \* os.environ: THINGS_MCP_API_TOKEN, THINGS_MCP_API_KEY
    _BEARER_TOKEN,
    _BEARER_CHECKED,
    _API_KEY,
    scope,         \* the ASGI scope of the request handled last
    response,      \* what the request got: the app, a 401, an exception
    \* formatters.py, sampling.py and the list tools: one call
    fn,            \* the function called: "none" before any
    listArg,       \* the list passed, or the list the store replied
    limitArg,      \* limit= or count=
    conciseArg,    \* concise=
    result,        \* what the call returned
    \* the write tools, show_in_things, json_import and run_applescript: one
    \* invocation
    cmd,           \* the tool invoked: "none" before any
    cmdArgs,       \* its arguments
    calls,         \* the bridge functions called and the URL commands executed, in order
    osruns,        \* the calls of run_applescript: script, completed process, result
    tempfiles,     \* the temp files there are
    made,          \* the items the invocation made in Things
    outcome        \* what the invocation came to: a value returned, an exception

somedayVars == <<op, runs, todo, isin, heap, arg, ret, before, input0, result1,
                 ctxGiven, ctx, projectsReply, headingsReply, anytimeReply, fetched, error>>
storeVars == <<projectStart, headingProject, tasks>>
toolVars == <<storeVars, tool, toolArgs, output, built, rebuilt>>
authVars == <<environ, _BEARER_TOKEN, _BEARER_CHECKED, _API_KEY, scope, response>>
listVars == <<fn, listArg, limitArg, conciseArg, result>>
writeVars == <<cmd, cmdArgs, calls, osruns, tempfiles, made, outcome>>

vars == <<somedayVars, toolVars, authVars, listVars, writeVars>>

-----------------------------------------------------------------------------
(* Bounds and universes *)

\* The largest number of to-dos in play in one call: the length of the list
\* passed to filter_someday_tasks, and the length of the list passed to
\* augment_someday_tasks plus the length of the Anytime reply.
MaxTodos == 2

None == "None"
ProjIds == {"P1", "P2"}
HeadIds == {"H1", "H2"}
Uuids == {"t1", "t2"}

\* Sequences over S of length at most n.
SeqsUpTo(S, n) == UNION {[1..k -> S] : k \in 0..n}

\* A to-do dict as things.py returns it, reduced to the keys someday.py reads.
\* The to-dos of a list refer to one heading: the contexts range over every
\* heading_to_project, so that heading is a key in some and not in others.
Todos == [uuid : Uuids, project : ProjIds \cup {None}, heading : {"H1", None}]

\* The other to-do dicts _is_in_someday_project is called with: any heading,
\* a key missing, an empty string for a value (what dict.get and Python
\* truthiness have to deal with).
OddTodos ==
    [uuid : {"t1"}, project : ProjIds \cup {None}, heading : HeadIds]
      \cup [uuid : {"t1"}] \cup [uuid : {"t1"}, heading : HeadIds \cup {None}]
      \cup [uuid : {"t1"}, project : ProjIds \cup {None}]
      \cup [uuid : {"t1"}, project : {""}, heading : HeadIds \cup {None, ""}]
      \cup [uuid : {"t1"}, project : ProjIds, heading : {""}]

\* heading_to_project dicts: a function on a subset of the headings.
HeadingMaps == UNION {[D -> ProjIds] : D \in SUBSET HeadIds}

\* ctx tuples (someday_project_ids, heading_to_project), any the caller may pass.
Contexts == [someday_project_ids : SUBSET ProjIds, heading_to_project : HeadingMaps]

\* A reply of things.py: None, or a list.
NoneReply == [isNone |-> TRUE, items |-> <<>>]
List(s) == [isNone |-> FALSE, items |-> s]
Replies(S, n) == {NoneReply} \cup {List(s) : s \in SeqsUpTo(S, n)}

ProjectsReplies == Replies([uuid : ProjIds], Cardinality(ProjIds))
HeadingsReplies == [ProjIds -> Replies([uuid : HeadIds], Cardinality(HeadIds))]

\* The orders in which Python may iterate over a set.
Orders(S) == {s \in [1..Cardinality(S) -> S] : \A i, j \in DOMAIN s : i /= j => s[i] /= s[j]}

-----------------------------------------------------------------------------
(* Python *)

\* bool(v) of an Optional[str].
Truthy(v) == v /= None /\ v /= ""

\* d.get(key)
Get(d, key) == IF key \in DOMAIN d THEN d[key] ELSE None

\* d[k] = v
DictSet(d, k, v) == [x \in DOMAIN d \cup {k} |-> IF x = k THEN v ELSE d[x]]

\* A bug: the "or []" left out.
OrEmpty_left_out(reply) == reply

\* reply or []
OrEmpty(reply) == IF reply.isNone \/ reply.items = <<>> THEN List(<<>>) ELSE reply

\* "for x in reply" raises TypeError when reply is None.
Iterable(reply) == ~reply.isNone

\* {x["uuid"] for x in s}
UuidsOf(s) == {s[i].uuid : i \in DOMAIN s}

-----------------------------------------------------------------------------------------------------------------------------------------------------
(* someday.py *)

\* A bug: only the project is looked at, the heading never.
_is_in_someday_project_project_only(t, someday_project_ids, heading_to_project) ==
    LET project_uuid == Get(t, "project") IN
    Truthy(project_uuid) /\ project_uuid \in someday_project_ids

\* A bug: the heading test without its "not project_uuid" guard.
_is_in_someday_project_no_guard(t, someday_project_ids, heading_to_project) ==
    LET project_uuid == Get(t, "project")
        heading_uuid == Get(t, "heading")
    IN  \/ Truthy(project_uuid) /\ project_uuid \in someday_project_ids
        \/ Truthy(heading_uuid) /\ heading_uuid \in DOMAIN heading_to_project

_is_in_someday_project(t, someday_project_ids, heading_to_project) ==
    LET project_uuid == Get(t, "project") IN
    IF Truthy(project_uuid) /\ project_uuid \in someday_project_ids
    THEN TRUE
    ELSE LET heading_uuid == Get(t, "heading") IN
         IF /\ Truthy(heading_uuid)
            /\ ~Truthy(project_uuid)
            /\ heading_uuid \in DOMAIN heading_to_project
         THEN TRUE
         ELSE FALSE

\* The inner loop of get_someday_context: for h in headings: map[h["uuid"]] = proj_id
RECURSIVE RecordHeadings(_, _, _)
RecordHeadings(heading_to_project, headings, proj_id) ==
    IF headings = <<>> THEN heading_to_project
    ELSE RecordHeadings(DictSet(heading_to_project, Head(headings).uuid, proj_id),
                        Tail(headings), proj_id)

\* The outer loop: for proj_id in someday_project_ids, in the order the set
\* yields them; headings = things.tasks(type="heading", project=proj_id) or [].
RECURSIVE RecordProjects(_, _, _)
RecordProjects(heading_to_project, order, hr) ==
    IF order = <<>> THEN heading_to_project
    ELSE RecordProjects(
             RecordHeadings(heading_to_project, OrEmpty(hr[Head(order)]).items, Head(order)),
             Tail(order), hr)

NoContext == [someday_project_ids |-> {}, heading_to_project |-> <<>>]

\* A bug: the headings of every project are recorded, not only those of the
\* Someday projects.
get_someday_context_every_project(pr, hr, order) ==
    [ctx |-> [someday_project_ids |-> UuidsOf(OrEmpty(pr).items),
              heading_to_project |->
                  RecordProjects(<<>>, CHOOSE o \in Orders(ProjIds) : TRUE, hr)],
     fetched |-> {"projects", "headings"},
     error |-> "none"]

\* get_someday_context(), given the store's replies and the set's iteration
\* order: the context returned, the store calls made, the exception raised.
get_someday_context(pr, hr, order) ==
    LET someday_projects == OrEmpty(pr) IN
    IF ~Iterable(someday_projects)
    THEN [ctx |-> NoContext, fetched |-> {"projects"}, error |-> "TypeError"]
    ELSE IF \E i \in DOMAIN order : ~Iterable(OrEmpty(hr[order[i]]))
    THEN [ctx |-> NoContext, fetched |-> {"projects", "headings"}, error |-> "TypeError"]
    ELSE [ctx |-> [someday_project_ids |-> UuidsOf(someday_projects.items),
                   heading_to_project |-> RecordProjects(<<>>, order, hr)],
          fetched |-> {"projects"} \cup (IF order = <<>> THEN {} ELSE {"headings"}),
          error |-> "none"]

\* A bug: the "not" of the comprehension's condition lost.
KeepNonSomeday_not_lost(todos, c) ==
    SelectSeq(todos, LAMBDA t :
        _is_in_someday_project(t, c.someday_project_ids, c.heading_to_project))

\* A bug: instead of a comprehension, "for t in todos: if ...: todos.remove(t)"
\* on a copy, which skips the element after each one it removes.
RECURSIVE RemoveWhileIterating(_, _, _)
RemoveWhileIterating(todos, i, c) ==
    IF i > Len(todos) THEN todos
    ELSE IF _is_in_someday_project(todos[i], c.someday_project_ids, c.heading_to_project)
    THEN RemoveWhileIterating(SubSeq(todos, 1, i - 1) \o SubSeq(todos, i + 1, Len(todos)),
                              i + 1, c)
    ELSE RemoveWhileIterating(todos, i + 1, c)

KeepNonSomeday_remove_while_iterating(todos, c) == RemoveWhileIterating(todos, 1, c)

\* The list comprehension of filter_someday_tasks.
KeepNonSomeday(todos, c) ==
    SelectSeq(todos, LAMBDA t :
        ~_is_in_someday_project(t, c.someday_project_ids, c.heading_to_project))

\* A bug: every new Anytime to-do is appended, whatever its project.
RECURSIVE AppendInherited_any_project(_, _, _, _)
AppendInherited_any_project(someday_todos, anytime_todos, existing_uuids, c) ==
    IF anytime_todos = <<>> THEN someday_todos
    ELSE LET t == Head(anytime_todos) IN
         AppendInherited_any_project(
             IF t.uuid \notin existing_uuids THEN Append(someday_todos, t) ELSE someday_todos,
             Tail(anytime_todos), existing_uuids, c)

\* A bug: the test against existing_uuids left out.
RECURSIVE AppendInherited_no_dedup(_, _, _, _)
AppendInherited_no_dedup(someday_todos, anytime_todos, existing_uuids, c) ==
    IF anytime_todos = <<>> THEN someday_todos
    ELSE LET t == Head(anytime_todos) IN
         AppendInherited_no_dedup(
             IF _is_in_someday_project(t, c.someday_project_ids, c.heading_to_project)
             THEN Append(someday_todos, t)
             ELSE someday_todos,
             Tail(anytime_todos), existing_uuids, c)

\* The loop of augment_someday_tasks: someday_todos.append(todo) for the
\* Anytime to-dos that pass the test; existing_uuids is computed once, before.
RECURSIVE AppendInherited(_, _, _, _)
AppendInherited(someday_todos, anytime_todos, existing_uuids, c) ==
    IF anytime_todos = <<>> THEN someday_todos
    ELSE LET t == Head(anytime_todos) IN
         AppendInherited(
             IF /\ t.uuid \notin existing_uuids
                /\ _is_in_someday_project(t, c.someday_project_ids, c.heading_to_project)
             THEN Append(someday_todos, t)
             ELSE someday_todos,
             Tail(anytime_todos), existing_uuids, c)

\* "if ctx is None: ctx = get_someday_context()": what a call gets its context
\* from.  given: the caller passed ctx.  Otherwise ctx is what the nested
\* get_someday_context() returned, fetched the store calls it made, error the
\* exception it raised.
ResolvedContexts ==
    {[given |-> TRUE, ctx |-> c, fetched |-> {}, error |-> "none"] : c \in Contexts}
      \cup UNION {UNION {
             {[given |-> FALSE] @@ get_someday_context(pr, hr, order)
              : order \in Orders(UuidsOf(OrEmpty(pr).items))}
             : hr \in HeadingsReplies} : pr \in ProjectsReplies}

\* A bug: the to-dos of Someday projects removed from the list passed in
\* ("todos[:] = [...]"), which is returned.
filter_someday_tasks_in_place(h, a, rc, fresh) ==
    IF rc.error /= "none"
    THEN [heap |-> h, ret |-> None, fetched |-> rc.fetched, error |-> rc.error]
    ELSE IF rc.ctx.someday_project_ids = {}
    THEN [heap |-> h, ret |-> a, fetched |-> rc.fetched, error |-> "none"]
    ELSE [heap |-> [h EXCEPT ![a] = KeepNonSomeday(h[a], rc.ctx)],
          ret |-> a, fetched |-> rc.fetched, error |-> "none"]

\* filter_someday_tasks(todos, ctx) on the heap h, todos being the list at
\* reference a and rc the context resolved: the heap after the call, the
\* reference returned, the store calls made and the exception raised.  A list
\* comprehension makes a new list, at reference fresh.
filter_someday_tasks(h, a, rc, fresh) ==
    IF rc.error /= "none"
    THEN [heap |-> h, ret |-> None, fetched |-> rc.fetched, error |-> rc.error]
    ELSE IF rc.ctx.someday_project_ids = {}
    THEN [heap |-> h, ret |-> a, fetched |-> rc.fetched, error |-> "none"]
    ELSE [heap |-> h @@ (fresh :> KeepNonSomeday(h[a], rc.ctx)),
          ret |-> fresh, fetched |-> rc.fetched, error |-> "none"]

\* A bug: the Anytime list fetched before the fast path is tried.
augment_someday_tasks_fetch_first(h, a, rc, reply) ==
    IF rc.error /= "none"
    THEN [heap |-> h, ret |-> None, fetched |-> rc.fetched, error |-> rc.error]
    ELSE LET anytime_todos == OrEmpty(reply) IN
         IF rc.ctx.someday_project_ids = {}
         THEN [heap |-> h, ret |-> a,
               fetched |-> rc.fetched \cup {"anytime"}, error |-> "none"]
         ELSE IF ~Iterable(anytime_todos)
         THEN [heap |-> h, ret |-> None,
               fetched |-> rc.fetched \cup {"anytime"}, error |-> "TypeError"]
         ELSE [heap |-> [h EXCEPT ![a] =
                           AppendInherited(h[a], anytime_todos.items, UuidsOf(h[a]), rc.ctx)],
               ret |-> a,
               fetched |-> rc.fetched \cup {"anytime"},
               error |-> "none"]

\* A bug: the "if not someday_ids: return someday_todos" left out.
augment_someday_tasks_no_fast_path(h, a, rc, reply) ==
    IF rc.error /= "none" \/ ~Iterable(OrEmpty(reply))
    THEN [heap |-> h, ret |-> None, fetched |-> rc.fetched, error |-> "TypeError"]
    ELSE [heap |-> [h EXCEPT ![a] =
                      AppendInherited(h[a], OrEmpty(reply).items, UuidsOf(h[a]), rc.ctx)],
          ret |-> a,
          fetched |-> rc.fetched \cup {"anytime"},
          error |-> "none"]

\* augment_someday_tasks(someday_todos, ctx) on the heap h, someday_todos
\* being the list at reference a, with the reply things.anytime() gives.
augment_someday_tasks(h, a, rc, reply) ==
    IF rc.error /= "none"
    THEN [heap |-> h, ret |-> None, fetched |-> rc.fetched, error |-> rc.error]
    ELSE IF rc.ctx.someday_project_ids = {}
    THEN [heap |-> h, ret |-> a, fetched |-> rc.fetched, error |-> "none"]
    ELSE LET anytime_todos == OrEmpty(reply) IN
         IF ~Iterable(anytime_todos)
         THEN [heap |-> h, ret |-> None,
               fetched |-> rc.fetched \cup {"anytime"}, error |-> "TypeError"]
         ELSE [heap |-> [h EXCEPT ![a] =
                           AppendInherited(h[a], anytime_todos.items, UuidsOf(h[a]), rc.ctx)],
               ret |-> a,
               fetched |-> rc.fetched \cup {"anytime"},
               error |-> "none"]

-----------------------------------------------------------------------------
(* Python sequences; models.py *)

DEFAULT_LIMIT == 10
DEFAULT_SAMPLE_COUNT == 5

\* s[:n].  A negative n counts from the end: s[:-1] is s without its last
\* element.
SliceTo(s, n) ==
    LET stop == IF n < 0 THEN Len(s) + n ELSE n
        last == IF stop < 0 THEN 0 ELSE IF stop > Len(s) THEN Len(s) ELSE stop
    IN SubSeq(s, 1, last)

\* The functions from 1..n into D that take no value twice.
Injections(n, D) == {f \in [1..n -> D] : \A i, j \in 1..n : i /= j => f[i] /= f[j]}

-----------------------------------------------------------------------------
(* formatters.py: a text is the sequence of its lines, a line what it says *)

\* One line for one item (format_todo_concise, format_project_concise,
\* format_area_concise, format_tag_concise): the item it is about.
ConciseLine(x) == [kind |-> "item", form |-> "concise", uuid |-> x.uuid]

\* One block for one item (format_todo_detailed, format_project_detailed,
\* format_area_detailed).
DetailedBlock(x) == [kind |-> "item", form |-> "detailed", uuid |-> x.uuid]

\* [format_todo_concise(t, ...) for t in shown], and the detailed blocks
ConciseLines(xs) == [i \in DOMAIN xs |-> ConciseLine(xs[i])]
DetailedBlocks(xs) == [i \in DOMAIN xs |-> DetailedBlock(xs[i])]

\* "No items found.", "No projects found.", "No areas found.", "No tags found."
NothingFound(what) == <<[kind |-> "none", what |-> what]>>

\* "... n more (use limit= to see more)"
MoreLine(n) == [kind |-> "more", n |-> n]

\* "Showing k/total items"
ShowingLine(k, total, what) == [kind |-> "showing", shown |-> k, total |-> total, what |-> what]

\* A bug: the "more" line written whenever the list was cut to limit items,
\* also when nothing was cut off.
format_todo_list_more_always(todos, concise, limit) ==
    LET total == Len(todos)
        shown == SliceTo(todos, limit)
    IN IF shown = <<>> THEN NothingFound("items")
       ELSE IF concise
       THEN ConciseLines(shown) \o <<MoreLine(total - Len(shown))>>
       ELSE <<ShowingLine(Len(shown), total, "items")>> \o DetailedBlocks(shown)

\* format_todo_list(todos, concise, limit)
format_todo_list(todos, concise, limit) ==
    LET total == Len(todos)
        shown == SliceTo(todos, limit)
    IN IF shown = <<>> THEN NothingFound("items")
       ELSE IF concise
       THEN ConciseLines(shown)
              \o (IF total > Len(shown) THEN <<MoreLine(total - Len(shown))>> ELSE <<>>)
       ELSE <<ShowingLine(Len(shown), total, "items")>> \o DetailedBlocks(shown)

\* format_project_list(projects, concise, limit)
format_project_list(projects, concise, limit) ==
    LET total == Len(projects)
        shown == SliceTo(projects, limit)
    IN IF shown = <<>> THEN NothingFound("projects")
       ELSE IF concise
       THEN ConciseLines(shown)
              \o (IF total > Len(shown) THEN <<MoreLine(total - Len(shown))>> ELSE <<>>)
       ELSE <<ShowingLine(Len(shown), total, "projects")>> \o DetailedBlocks(shown)

-----------------------------------------------------------------------------
(* sampling.py *)

\* A bug: random.choices in place of random.sample (positions drawn with
\* replacement).
random_sample_with_replacement(its, count) ==
    IF count <= 0 THEN {<<>>}
    ELSE IF Len(its) <= count THEN {its}
    ELSE {[i \in 1..count |-> its[pos[i]]] : pos \in [1..count -> DOMAIN its]}

\* random_sample(items, count): the lists it can return.  random.sample draws
\* count positions of the list, no position twice, in any order.
random_sample(its, count) ==
    IF count <= 0 THEN {<<>>}
    ELSE IF Len(its) <= count THEN {its}
    ELSE {[i \in 1..count |-> its[pos[i]]] : pos \in Injections(count, DOMAIN its)}

-----------------------------------------------------------------------------
(* server.py: the store the tools read, and the list tools *)

\* The largest number of to-dos in the store.
MaxTasks == 2

\* The largest number of to-dos in the store when the user moves projects and
\* headings between the invocations.
MaxMovedTasks == 1

StoreStarts == {"Inbox", "Today", "Upcoming", "Anytime", "Someday"}
ProjectStarts == {"Anytime", "Someday"}
StoreHeadIds == {"H1"}
ProjSeq == <<"P1", "P2">>
HeadSeq == <<"H1">>
TaskUuid == <<"t1", "t2", "t3">>

\* The i-th to-do of the store: in one start bucket; loose, in project P1, or
\* under heading H1 (things.py gives a to-do under a heading no project).  A
\* to-do of the Inbox is loose.
StoreTasks(i) ==
    {t \in [uuid : {TaskUuid[i]}, start : StoreStarts,
            project : {"P1", None}, heading : {"H1", None}] :
        /\ t.project = None \/ t.heading = None
        /\ t.start = "Inbox" => (t.project = None /\ t.heading = None)}

\* The to-do tables of at most max to-dos.
Stores(max) == UNION {{ts \in [1..n -> UNION {StoreTasks(i) : i \in 1..n}] :
                          \A i \in 1..n : ts[i] \in StoreTasks(i)} : n \in 0..max}

\* The to-do dict things.py makes of a to-do, reduced to the keys read.
AsTodo(t) == [uuid |-> t.uuid, project |-> t.project, heading |-> t.heading]

\* things.inbox(), things.today(), things.upcoming(), things.anytime(),
\* things.someday()
things_list(ts, start) ==
    LET InBucket(t) == t.start = start
        xs == SelectSeq(ts, InBucket)
    IN List([i \in DOMAIN xs |-> AsTodo(xs[i])])

\* things.todos(project=project_uuid): every to-do, or the to-dos of the
\* project
things_todos(ts, project_uuid) ==
    LET Wanted(t) == project_uuid = None \/ t.project = project_uuid
        xs == SelectSeq(ts, Wanted)
    IN List([i \in DOMAIN xs |-> AsTodo(xs[i])])

\* things.projects(start="Someday")
things_projects(ps) ==
    LET IsSomeday(p) == ps[p] = "Someday"
        xs == SelectSeq(ProjSeq, IsSomeday)
    IN List([i \in DOMAIN xs |-> [uuid |-> xs[i]]])

\* things.tasks(type="heading", project=p), for each p
things_headings(hp) ==
    [p \in ProjIds |->
        LET Under(h) == hp[h] = p
            xs == SelectSeq(HeadSeq, Under)
        IN List([i \in DOMAIN xs |-> [uuid |-> xs[i]]])]

\* get_someday_context() on the store, for each order the set of Someday
\* project ids can be iterated in.
StoreContexts(ps, hp) ==
    {get_someday_context(things_projects(ps), things_headings(hp), order).ctx
       : order \in Orders(UuidsOf(OrEmpty(things_projects(ps)).items))}

\* filter_someday_tasks(things.X() or [], ctx): the list returned
Filtered(reply, c) ==
    LET rc == [given |-> TRUE, ctx |-> c, fetched |-> {}, error |-> "none"]
        r == filter_someday_tasks("L1" :> OrEmpty(reply).items, "L1", rc, "L2")
    IN r.heap[r.ret]

\* augment_someday_tasks(things.someday() or [], ctx): the list returned
Augmented(reply, c, anytime) ==
    LET rc == [given |-> TRUE, ctx |-> c, fetched |-> {}, error |-> "none"]
        r == augment_someday_tasks("L1" :> OrEmpty(reply).items, "L1", rc, anytime)
    IN r.heap[r.ret]

\* A bug: the list cut to limit items before the Someday filter is applied.
get_today_limit_first(ts, c, concise, limit) ==
    format_todo_list(Filtered(List(SliceTo(things_list(ts, "Today").items, limit)), c),
                     concise, limit)

\* get_today(concise, limit), c being the context it built
get_today(ts, c, concise, limit) ==
    format_todo_list(Filtered(things_list(ts, "Today"), c), concise, limit)

\* get_upcoming(concise, limit)
get_upcoming(ts, c, concise, limit) ==
    format_todo_list(Filtered(things_list(ts, "Upcoming"), c), concise, limit)

\* get_anytime(concise, limit)
get_anytime(ts, c, concise, limit) ==
    format_todo_list(Filtered(things_list(ts, "Anytime"), c), concise, limit)

\* get_someday(concise, limit)
get_someday(ts, c, concise, limit) ==
    format_todo_list(Augmented(things_list(ts, "Someday"), c, things_list(ts, "Anytime")),
                     concise, limit)

\* "Random k of total ... items:"
RandomHeader(k, total, what) == [kind |-> "random", k |-> k, total |-> total, what |-> what]

\* get_random_inbox(count): the texts it can return
get_random_inbox(ts, count) ==
    LET its == OrEmpty(things_list(ts, "Inbox")).items IN
    {<<RandomHeader(Len(sampled), Len(its), "inbox")>> \o ConciseLines(sampled)
       : sampled \in random_sample(its, count)}

\* A bug: total taken from the Today list before the Someday filter.
get_random_today_total_unfiltered(ts, c, count) ==
    LET raw == OrEmpty(things_list(ts, "Today")).items
        its == Filtered(things_list(ts, "Today"), c)
    IN {<<RandomHeader(Len(sampled), Len(raw), "today")>> \o ConciseLines(sampled)
          : sampled \in random_sample(its, count)}

\* get_random_today(count): the texts it can return
get_random_today(ts, c, count) ==
    LET its == Filtered(things_list(ts, "Today"), c) IN
    {<<RandomHeader(Len(sampled), Len(its), "today")>> \o ConciseLines(sampled)
       : sampled \in random_sample(its, count)}

\* get_random_anytime(count): the texts it can return
get_random_anytime(ts, c, count) ==
    LET its == Filtered(things_list(ts, "Anytime"), c) IN
    {<<RandomHeader(Len(sampled), Len(its), "anytime")>> \o ConciseLines(sampled)
       : sampled \in random_sample(its, count)}

\* get_random_todos(project_uuid, count): the texts it can return
get_random_todos(ts, project_uuid, count) ==
    LET its == OrEmpty(things_todos(ts, project_uuid)).items IN
    {<<RandomHeader(Len(sampled), Len(its), "todos")>> \o ConciseLines(sampled)
       : sampled \in random_sample(its, count)}

\* "Today: n items"
CountLine(what, n) == [kind |-> "count", what |-> what, n |-> n]

\* A bug: the Someday line counts things.someday() as it is.
get_summary_someday_not_augmented(ts, c) ==
    LET inbox == OrEmpty(things_list(ts, "Inbox")).items
        today_items == Filtered(things_list(ts, "Today"), c)
        upcoming == Filtered(things_list(ts, "Upcoming"), c)
        anytime == Filtered(things_list(ts, "Anytime"), c)
        someday_items == OrEmpty(things_list(ts, "Someday")).items
    IN <<CountLine("Inbox", Len(inbox)),
         CountLine("Today", Len(today_items)),
         CountLine("Upcoming", Len(upcoming)),
         CountLine("Anytime", Len(anytime)),
         CountLine("Someday", Len(someday_items))>>

\* get_summary(): the lines for the lists of to-dos (the lines for Projects,
\* Areas and the deadlines are about lists this store does not hold).
get_summary(ts, c) ==
    LET inbox == OrEmpty(things_list(ts, "Inbox")).items
        today_items == Filtered(things_list(ts, "Today"), c)
        upcoming == Filtered(things_list(ts, "Upcoming"), c)
        anytime == Filtered(things_list(ts, "Anytime"), c)
        someday_items == Augmented(things_list(ts, "Someday"), c, things_list(ts, "Anytime"))
    IN <<CountLine("Inbox", Len(inbox)),
         CountLine("Today", Len(today_items)),
         CountLine("Upcoming", Len(upcoming)),
         CountLine("Anytime", Len(anytime)),
         CountLine("Someday", Len(someday_items))>>

\* The arguments a tool has when the caller gives none.
DefaultArgs ==
    [concise |-> TRUE, limit |-> DEFAULT_LIMIT, count |-> DEFAULT_SAMPLE_COUNT,
     project_uuid |-> None]

\* The values of limit= and count= the tools are invoked with.
Limits == {0, 1, DEFAULT_LIMIT}
Counts == {-1, 0, 1, DEFAULT_SAMPLE_COUNT}

-----------------------------------------------------------------------------
(* auth.py: a string is the sequence of its characters *)

\* None, where a str or bytes value can stand.
NoneStr == <<None>>

\* The character 0xE9 (latin-1 e acute) stands for the characters above 0x7F.
NonAscii == {"0xE9"}
Whitespace == {" ", "\n"}

\* str.lower(), on the letters of the strings in play
LowerChar(ch) ==
    CASE ch = "B" -> "b"
      [] ch = "E" -> "e"
      [] ch = "A" -> "a"
      [] ch = "R" -> "r"
      [] OTHER -> ch
lower(str) == [i \in DOMAIN str |-> LowerChar(str[i])]

\* str.startswith(prefix)
startswith(str, prefix) ==
    Len(str) >= Len(prefix) /\ SubSeq(str, 1, Len(prefix)) = prefix

\* str[n:]
SliceFrom(str, n) == SubSeq(str, n + 1, Len(str))

\* str.strip()
RECURSIVE strip(_)
strip(str) ==
    IF str = <<>> THEN <<>>
    ELSE IF Head(str) \in Whitespace THEN strip(Tail(str))
    ELSE IF str[Len(str)] \in Whitespace THEN strip(SubSeq(str, 1, Len(str) - 1))
    ELSE str

\* os.environ.get(name, default)
EnvGet(env, name, default) == IF env[name] = NoneStr THEN default ELSE env[name]

\* secrets.compare_digest(a, b) on two str: it raises TypeError when either
\* holds a non-ASCII character.
compare_digest(a, b) ==
    IF \E i \in DOMAIN a : a[i] \in NonAscii THEN "TypeError"
    ELSE IF \E i \in DOMAIN b : b[i] \in NonAscii THEN "TypeError"
    ELSE IF a = b THEN "True" ELSE "False"

\* get_bearer_token(): the value returned and the module globals after it
get_bearer_token(env, bearer_token, bearer_checked) ==
    IF bearer_checked
    THEN [value |-> bearer_token, token |-> bearer_token, checked |-> TRUE]
    ELSE LET token == strip(EnvGet(env, "THINGS_MCP_API_TOKEN", <<>>))
             t == IF token /= <<>> THEN token ELSE NoneStr
         IN [value |-> t, token |-> t, checked |-> TRUE]

\* The keys secrets.token_urlsafe(32) can return.
GeneratedKeys == {<<"g">>}

\* get_api_key(): the keys it can return (it keeps the key in _API_KEY)
get_api_key(env, api_key) ==
    IF api_key /= NoneStr THEN {api_key}
    ELSE LET key == EnvGet(env, "THINGS_MCP_API_KEY", NoneStr) IN
         IF key /= NoneStr /\ key /= <<>> THEN {key} ELSE GeneratedKeys

\* validate_api_key(provided_key), key being what get_api_key() returns.
\* Nothing in the package calls it.
validate_api_key(provided_key, key) ==
    IF provided_key = NoneStr \/ provided_key = <<>> THEN "False"
    ELSE compare_digest(provided_key, key)

Bearer_ == <<"b", "e", "a", "r", "e", "r", " ">>

\* BearerAuthMiddleware.__call__(scope, receive, send), expected being what
\* get_bearer_token() returns: "app" when the request is passed on to the
\* wrapped app, "401 Unauthorized" when the 401 with the body
\* {"error": "Unauthorized"} is sent, the exception when one is raised.
BearerAuthMiddleware(sc, expected) ==
    IF sc.type \notin {"http", "websocket"} THEN "app"
    ELSE IF expected = NoneStr THEN "app"
    ELSE LET auth_value == IF sc.authorization = NoneStr THEN <<>> ELSE sc.authorization
             provided == IF startswith(lower(auth_value), Bearer_)
                         THEN SliceFrom(auth_value, 7) ELSE <<>>
             same == IF provided = <<>> THEN "False" ELSE compare_digest(provided, expected)
         IN CASE same = "True" -> "app"
              [] same = "False" -> "401 Unauthorized"
              [] OTHER -> same

\* The values of THINGS_MCP_API_TOKEN and THINGS_MCP_API_KEY: unset, empty,
\* blank, a token, a token between blanks, a token with a non-ASCII character.
TokenValues == {NoneStr, <<>>, <<" ">>, <<"s">>, <<" ", "s", " ">>, <<"0xE9">>}
KeyValues == {NoneStr, <<>>, <<"k">>}
Environs == [THINGS_MCP_API_TOKEN : TokenValues, THINGS_MCP_API_KEY : KeyValues]

\* The values of the Authorization header: absent, and strings with and
\* without the scheme, the right and a wrong token.
Authorizations ==
    {NoneStr, <<>>,
     <<"B", "e", "a", "r", "e", "r", " ", "s">>,
     <<"b", "e", "a", "r", "e", "r", " ", "s">>,
     <<"B", "E", "A", "R", "E", "R", " ", "s">>,
     <<"B", "e", "a", "r", "e", "r", " ", "x">>,
     <<"B", "e", "a", "r", "e", "r", " ", "s", " ">>,
     <<"B", "e", "a", "r", "e", "r", " ", " ", "s">>,
     <<"B", "e", "a", "r", "e", "r", " ", "0xE9">>,
     <<"B", "e", "a", "r", "e", "r", " ">>,
     <<"B", "e", "a", "r", "e", "r", "s">>,
     <<"B", "a", "s", "i", "c", " ", "s">>,
     <<"s">>}

\* The requests: the scope type, the Authorization header, the X-API-Key
\* header and the api_key query parameter.
Scopes == [type : {"http", "websocket", "lifespan"},
           authorization : Authorizations,
           x_api_key : {NoneStr, <<"k">>, <<"g">>, <<"x">>},
           api_key : {NoneStr, <<"k">>, <<"g">>}]

NoScope == [type |-> "none", authorization |-> NoneStr, x_api_key |-> NoneStr, api_key |-> NoneStr]

-----------------------------------------------------------------------------
(* server.py: get_areas, get_tags, json_export; the lists they are given *)

\* The largest number of items in a list passed to a formatter or to
\* random_sample, or returned by things.areas(), things.tags(), things.todos().
MaxItems == 3

ItemIds == {"i1", "i2", "i3"}
Items == [uuid : ItemIds]

\* The values of limit= and count=: negative, zero, below, at and above the
\* length of the list, the default.
ListLimits == (-2..(MaxItems + 1)) \cup {DEFAULT_LIMIT}

\* get_areas(concise, limit), reply being what things.areas() returns
get_areas(reply, concise, limit) ==
    LET areas == OrEmpty(reply).items
        total == Len(areas)
        shown == SliceTo(areas, limit)
    IN IF shown = <<>> THEN NothingFound("areas")
       ELSE (IF concise THEN ConciseLines(shown) ELSE DetailedBlocks(shown))
              \o (IF total > Len(shown) THEN <<MoreLine(total - Len(shown))>> ELSE <<>>)

\* get_tags(limit), reply being what things.tags() returns
get_tags(reply, limit) ==
    LET tags == OrEmpty(reply).items
        total == Len(tags)
        shown == SliceTo(tags, limit)
    IN IF shown = <<>> THEN NothingFound("tags")
       ELSE ConciseLines(shown)
              \o (IF total > Len(shown) THEN <<MoreLine(total - Len(shown))>> ELSE <<>>)

\* One entry of the JSON array json_export returns.
ExportEntry(t) == [kind |-> "entry", uuid |-> t.uuid]

\* json_export(limit), reply being what things.todos() returns: the entries
\* of the array
json_export(reply, limit) ==
    LET xs == SliceTo(OrEmpty(reply).items, limit) IN [i \in DOMAIN xs |-> ExportEntry(xs[i])]

-----------------------------------------------------------------------------
(* applescript.py: the AppleScript bridge *)

\* What a call comes to: the value it returns, or the exception it raises.
Return(v) == [kind |-> "return", value |-> v]
Raise(exc) == [kind |-> "raise", value |-> <<exc>>]

\* The paths tempfile.mkstemp can hand out.
TempPaths == {"tmp1.applescript", "tmp2.applescript"}

\* A script is the statements of its body in order, whether they stand in
\* "try ... on error errMsg / return "Error: " & errMsg / end try", and what
\* its closing return statement gives ("return id of newTodo", 'return "OK"';
\* nothing for a script without one).
\*
\* How a run of "osascript path" goes: "ok", every statement done; "error",
\* statement at raised an error in Things; "exit", osascript ended with a
\* non-zero code before any statement ran; "timeout", subprocess.run gave up
\* after at statements were done.
Fates(script) ==
    {[kind |-> "ok", at |-> 0], [kind |-> "exit", at |-> 0]}
      \cup {[kind |-> "error", at |-> k] : k \in DOMAIN script.steps}
      \cup {[kind |-> "timeout", at |-> k] : k \in 0..Len(script.steps)}

\* subprocess.run(["osascript", path], ...): the completed process, and the
\* number of items the statements that were done made in Things.  An error
\* inside the try block is caught by the script, which returns "Error: ..."
\* and exits with 0; outside a try block it ends osascript with a non-zero code.
osascript(script, fate) ==
    LET done == CASE fate.kind = "ok" -> Len(script.steps)
                  [] fate.kind = "error" -> fate.at - 1
                  [] fate.kind = "timeout" -> fate.at
                  [] OTHER -> 0
    IN [timedOut |-> fate.kind = "timeout",
        returncode |-> IF fate.kind = "exit" \/ (fate.kind = "error" /\ ~script.try)
                       THEN 1 ELSE 0,
        stdout |-> CASE fate.kind = "ok" -> script.returns \o <<"\n">>
                     [] fate.kind = "error" /\ script.try -> <<"Error:", " ", "errMsg", "\n">>
                     [] OTHER -> <<>>,
        made |-> Cardinality({i \in 1..done :
                     script.steps[i] \in {"make new to do", "make new project"}})]

\* A bug: os.unlink(path) at the end of the try block, not in a finally
\* clause.
run_applescript_unlink_not_finally(files, script, fate) ==
    LET path == CHOOSE p \in TempPaths : p \notin files
        run == osascript(script, fate)
        failed == run.timedOut \/ run.returncode /= 0
    IN [files |-> IF failed THEN files \cup {path} ELSE (files \cup {path}) \ {path},
        script |-> script,
        run |-> run,
        result |-> IF failed THEN Raise("RuntimeError") ELSE Return(strip(run.stdout))]

\* run_applescript(script), files being the temp files there are and fate how
\* the run of osascript goes: the temp files after the call, the script
\* written to the file, the completed process, and what the call comes to.
run_applescript(files, script, fate) ==
    LET path == CHOOSE p \in TempPaths : p \notin files
        written == files \cup {path}
        run == osascript(script, fate)
    IN [files |-> written \ {path},
        script |-> script,
        run |-> run,
        result |-> IF run.timedOut THEN Raise("RuntimeError")
                   ELSE IF run.returncode /= 0 THEN Raise("RuntimeError")
                   ELSE Return(strip(run.stdout))]

\* _build_when_script(var_name, when), for when in lower case without blanks
\* around it; a value that is no keyword and no date gives no statement.
_build_when_script(when) ==
    CASE when = "today" -> <<"move to list Today">>
      [] when = "anytime" -> <<"move to list Anytime">>
      [] when = "someday" -> <<"move to list Someday">>
      [] when \in {"tomorrow", "evening"} -> <<"schedule for " \o when>>
      [] OTHER -> <<>>

\* if when: ...
WhenScript(when) == IF Truthy(when) THEN _build_when_script(when) ELSE <<>>

\* The script applescript.add_todo(title, when=when) builds
add_todo_script(a) ==
    [try |-> TRUE,
     steps |-> <<"make new to do">> \o WhenScript(a.when),
     returns |-> <<"uuid">>]

\* The script applescript.add_project(title, when=when) builds
add_project_script(a) ==
    [try |-> TRUE,
     steps |-> <<"make new project">> \o WhenScript(a.when),
     returns |-> <<"uuid">>]

\* A bug: canceled=False sets the status to open whatever completed is.
update_todo_script_open_overrides(a) ==
    [try |-> TRUE,
     steps |-> <<"set theTodo">> \o WhenScript(a.when)
                 \o (CASE a.completed = "True" -> <<"set status to completed">>
                       [] a.completed = "False" -> <<"set status to open">>
                       [] OTHER -> <<>>)
                 \o (CASE a.canceled = "True" -> <<"set status to canceled">>
                       [] a.canceled = "False" -> <<"set status to open">>
                       [] OTHER -> <<>>),
     returns |-> <<"OK">>]

\* The script applescript.update_todo(todo_id, when=when,
\* completed=completed, canceled=canceled) builds
update_todo_script(a) ==
    [try |-> TRUE,
     steps |-> <<"set theTodo">> \o WhenScript(a.when)
                 \o (CASE a.completed = "True" -> <<"set status to completed">>
                       [] a.completed = "False" -> <<"set status to open">>
                       [] OTHER -> <<>>)
                 \o (CASE a.canceled = "True" -> <<"set status to canceled">>
                       [] a.canceled = "False" /\ a.completed /= "True" ->
                            <<"set status to open">>
                       [] OTHER -> <<>>),
     returns |-> <<"OK">>]

\* The script applescript.update_project(project_id, when=when,
\* completed=completed, canceled=canceled) builds
update_project_script(a) ==
    [try |-> TRUE,
     steps |-> <<"set theProj">> \o WhenScript(a.when)
                 \o (CASE a.completed = "True" -> <<"set status to completed">>
                       [] a.completed = "False" -> <<"set status to open">>
                       [] OTHER -> <<>>)
                 \o (CASE a.canceled = "True" -> <<"set status to canceled">>
                       [] a.canceled = "False" /\ a.completed /= "True" ->
                            <<"set status to open">>
                       [] OTHER -> <<>>),
     returns |-> <<"OK">>]

\* The two scripts of applescript.show_in_things(item_id)
show_script(show) == [try |-> FALSE, steps |-> <<show, "activate">>, returns |-> <<>>]

\* applescript.show_in_things(item_id): the item shown as a to-do, then, that
\* run having raised RuntimeError, as a project; the runs made and what the
\* call comes to.  The second RuntimeError is caught as well.
applescript_show_in_things(files, fate1, fate2) ==
    LET r1 == run_applescript(files, show_script("show to do id"), fate1)
        r2 == run_applescript(r1.files, show_script("show project id"), fate2)
    IN IF r1.result.kind = "return"
       THEN [files |-> r1.files, runs |-> <<r1>>, result |-> Return(<<"OK">>)]
       ELSE IF r2.result.kind = "return"
       THEN [files |-> r2.files, runs |-> <<r1, r2>>, result |-> Return(<<"OK">>)]
       ELSE [files |-> r2.files, runs |-> <<r1, r2>>,
             result |-> Return(<<"Error:", " ", "RuntimeError">>)]

-----------------------------------------------------------------------------
(* json.loads and url_scheme.py *)

\* A JSON text is the sequence of its tokens: the brackets and the comma of
\* an array, a number, an object, an object with "operation": "update".
JsonTokens == {"[", "]", ",", "1", "{}", "{u}"}
JsonAtoms == {"1", "{}", "{u}"}

\* The longest JSON text passed to json_import, in tokens.
MaxJsonTokens == 5

JSONDecodeError == [ok |-> FALSE, kind |-> "JSONDecodeError", items |-> <<>>, next |-> 0]

\* json.loads: the value that starts at token i of the text and the position
\* after it.  An array is the sequence of its elements, of each its kind:
\* "1", "{}", "{u}" or "list".
RECURSIVE ParseValue(_, _)
RECURSIVE ParseElements(_, _, _)
ParseValue(text, i) ==
    IF i > Len(text) THEN JSONDecodeError
    ELSE IF text[i] \in JsonAtoms
    THEN [ok |-> TRUE, kind |-> text[i], items |-> <<>>, next |-> i + 1]
    ELSE IF text[i] /= "[" THEN JSONDecodeError
    ELSE IF i + 1 <= Len(text) /\ text[i + 1] = "]"
    THEN [ok |-> TRUE, kind |-> "list", items |-> <<>>, next |-> i + 2]
    ELSE ParseElements(text, i + 1, <<>>)

ParseElements(text, i, acc) ==
    LET v == ParseValue(text, i) IN
    IF ~v.ok \/ v.next > Len(text) THEN JSONDecodeError
    ELSE IF text[v.next] = "," THEN ParseElements(text, v.next + 1, Append(acc, v.kind))
    ELSE IF text[v.next] = "]"
    THEN [ok |-> TRUE, kind |-> "list", items |-> Append(acc, v.kind), next |-> v.next + 1]
    ELSE JSONDecodeError

\* json.loads(data)
json_loads(data) ==
    LET v == ParseValue(data, 1) IN
    IF v.ok /\ v.next = Len(data) + 1 THEN v ELSE JSONDecodeError

\* any(item.get("operation") == "update" for item in data): an element that
\* is no object has no get.
RECURSIVE has_updates(_)
has_updates(data) ==
    IF data = <<>> THEN "False"
    ELSE IF Head(data) \notin {"{}", "{u}"} THEN "AttributeError"
    ELSE IF Head(data) = "{u}" THEN "True"
    ELSE has_updates(Tail(data))

\* url_scheme.json_import(data, reveal): the URL commands executed and what
\* the call comes to
url_scheme_json_import(data) ==
    IF has_updates(data) = "AttributeError"
    THEN [calls |-> <<>>, result |-> Raise("AttributeError")]
    ELSE [calls |-> <<"_execute_url">>, result |-> Return(<<"things:///json">>)]

\* _execute_url(url), for a things:///add or things:///add-project URL: the
\* number of items it makes in Things, opens telling whether Things acts on
\* the URL (the result of the command is not read).
_execute_url(opens) == IF opens THEN 1 ELSE 0

-----------------------------------------------------------------------------
(* server.py: the write tools, show_in_things and json_import *)

\* What an invocation did: the bridge functions called and the URL commands
\* executed, in order; the temp files left; the runs of run_applescript; the
\* items made in Things; and what the invocation comes to.
Did(cs, files, rs, n, res) ==
    [calls |-> cs, files |-> files, runs |-> rs, made |-> n, outcome |-> res]

\* try: result = applescript.f(...); if result.startswith("Error:"): raise
\* RuntimeError(result) ... except RuntimeError: url_scheme.g(...).  b is what
\* the call of the bridge came to; urlMade the items the URL command makes.
WithFallback(f, g, b, urlMade, done, viaUrl) ==
    IF b.result.kind = "raise" /\ b.result.value /= <<"RuntimeError">>
    THEN Did(<<f>>, b.files, <<b>>, b.run.made, b.result)
    ELSE IF b.result.kind = "raise" \/ startswith(b.result.value, <<"Error:">>)
    THEN Did(<<f, g, "_execute_url">>, b.files, <<b>>, b.run.made + urlMade, Return(viaUrl))
    ELSE Did(<<f>>, b.files, <<b>>, b.run.made, Return(done))

\* A bug: a result that starts with "Error:" is taken for the UUID.
add_todo_error_not_checked(files, a, fate, opens) ==
    LET b == run_applescript(files, add_todo_script(a), fate) IN
    IF a.checklist_items /= NoneStr /\ a.checklist_items /= <<>>
    THEN Did(<<"url_scheme.add_todo_url", "_execute_url">>, files, <<>>, _execute_url(opens),
             Return(<<"Created todo", "via URL scheme (checklist items included).">>))
    ELSE IF b.result.kind = "raise"
    THEN Did(<<"applescript.add_todo", "url_scheme.add_todo_url", "_execute_url">>, b.files,
             <<b>>, b.run.made + _execute_url(opens),
             Return(<<"Created todo", "via URL scheme (no UUID available).">>))
    ELSE Did(<<"applescript.add_todo">>, b.files, <<b>>, b.run.made,
             Return(<<"Created todo", "UUID:">>))

\* add_todo(title, when=when, checklist_items=checklist_items)
add_todo(files, a, fate, opens) ==
    IF a.checklist_items /= NoneStr /\ a.checklist_items /= <<>>
    THEN Did(<<"url_scheme.add_todo_url", "_execute_url">>, files, <<>>, _execute_url(opens),
             Return(<<"Created todo", "via URL scheme (checklist items included).">>))
    ELSE WithFallback("applescript.add_todo", "url_scheme.add_todo_url",
                      run_applescript(files, add_todo_script(a), fate), _execute_url(opens),
                      <<"Created todo", "UUID:">>,
                      <<"Created todo", "via URL scheme (no UUID available).">>)

\* add_project(title, when=when)
add_project(files, a, fate, opens) ==
    WithFallback("applescript.add_project", "url_scheme.add_project_url",
                 run_applescript(files, add_project_script(a), fate), _execute_url(opens),
                 <<"Created project", "UUID:">>,
                 <<"Created project", "via URL scheme (no UUID available).">>)

\* update_todo(todo_id, when=when, completed=completed, canceled=canceled)
update_todo(files, a, fate) ==
    WithFallback("applescript.update_todo", "url_scheme.update_todo_url",
                 run_applescript(files, update_todo_script(a), fate), 0,
                 <<"Updated todo">>, <<"Updated todo", "via URL scheme.">>)

\* update_project(project_id, when=when, completed=completed,
\* canceled=canceled)
update_project(files, a, fate) ==
    WithFallback("applescript.update_project", "url_scheme.update_project_url",
                 run_applescript(files, update_project_script(a), fate), 0,
                 <<"Updated project">>, <<"Updated project", "via URL scheme.">>)

\* show_in_things(item_id)
show_in_things(files, fate1, fate2) ==
    LET b == applescript_show_in_things(files, fate1, fate2) IN
    IF b.result.kind = "raise"
    THEN Did(<<"applescript.show_in_things", "url_scheme.show_url", "_execute_url">>,
             b.files, b.runs, 0, Return(<<"Revealed", "in Things via URL scheme.">>))
    ELSE IF b.result.value = <<"OK">>
    THEN Did(<<"applescript.show_in_things">>, b.files, b.runs, 0,
             Return(<<"Revealed", "in Things.">>))
    ELSE Did(<<"applescript.show_in_things">>, b.files, b.runs, 0, b.result)

\* json_import(data, reveal)
json_import(files, data) ==
    LET parsed == json_loads(data) IN
    IF ~parsed.ok THEN Did(<<>>, files, <<>>, 0, Return(<<"Invalid JSON:">>))
    ELSE IF parsed.kind /= "list"
    THEN Did(<<>>, files, <<>>, 0, Return(<<"JSON must be an array of objects.">>))
    ELSE LET b == url_scheme_json_import(parsed.items) IN
         IF b.result.kind = "raise"
         THEN Did(<<"url_scheme.json_import">> \o b.calls, files, <<>>, 0, b.result)
         ELSE Did(<<"url_scheme.json_import">> \o b.calls, files, <<>>, 0,
                  Return(<<"Imported", ToString(Len(parsed.items)), "items via JSON.">>))

\* The arguments the write tools are invoked with.
Whens == {None, "today", "tomorrow", "next week"}
Flags == {None, "True", "False"}
ChecklistItems == {NoneStr, <<>>, <<"c">>}
NoArgs == [when |-> None, completed |-> None, canceled |-> None,
           checklist_items |-> NoneStr, data |-> <<>>]

\* The scripts run_applescript is called with on its own.
Scripts == [try : BOOLEAN, steps : SeqsUpTo({"make new to do", "activate"}, 2),
            returns : {<<>>, <<"OK">>, <<" ", "OK">>}]

-----------------------------------------------------------------------------
(* The calls *)

NoTodo == [uuid |-> None]

\* The contents of the list a call returned; nothing when it raised.
Contents(h, r) == IF r = None THEN <<>> ELSE h[r]

\* No tool invoked yet, on an empty store.
ToolsIdle ==
    /\ projectStart = [p \in ProjIds |-> "Anytime"]
    /\ headingProject = [h \in StoreHeadIds |-> "P1"]
    /\ tasks = <<>>
    /\ tool = "none"
    /\ toolArgs = DefaultArgs
    /\ output = <<>>
    /\ built = <<>>
    /\ rebuilt = FALSE

\* The process not started, no request yet.
AuthIdle ==
    /\ environ = [THINGS_MCP_API_TOKEN |-> NoneStr, THINGS_MCP_API_KEY |-> NoneStr]
    /\ _BEARER_TOKEN = NoneStr
    /\ _BEARER_CHECKED = FALSE
    /\ _API_KEY = NoneStr
    /\ scope = NoScope
    /\ response = "none"

\* No formatter or sampler called yet.
ListsIdle ==
    /\ fn = "none"
    /\ listArg = <<>>
    /\ limitArg = DEFAULT_LIMIT
    /\ conciseArg = TRUE
    /\ result = <<>>

\* No write tool invoked yet.
WritesIdle ==
    /\ cmd = "none"
    /\ cmdArgs = NoArgs
    /\ calls = <<>>
    /\ osruns = <<>>
    /\ tempfiles = {}
    /\ made = 0
    /\ outcome = Return(<<>>)

SomedayIdle ==
    /\ op = "idle"
    /\ runs = 0
    /\ todo = NoTodo
    /\ isin = FALSE
    /\ heap = <<>>
    /\ arg = None
    /\ ret = None
    /\ before = <<>>
    /\ input0 = <<>>
    /\ result1 = <<>>
    /\ ctxGiven = FALSE
    /\ ctx = NoContext
    /\ projectsReply = NoneReply
    /\ headingsReply = [p \in ProjIds |-> NoneReply]
    /\ anytimeReply = NoneReply
    /\ fetched = {}
    /\ error = "none"

Init == SomedayIdle /\ ToolsIdle /\ AuthIdle /\ ListsIdle /\ WritesIdle

\* _is_in_someday_project(t, c[0], c[1])
Call_is_in_someday_project ==
    /\ op = "idle"
    /\ \E t \in Todos \cup OddTodos, c \in Contexts :
        /\ todo' = t
        /\ ctx' = c
        /\ isin' = _is_in_someday_project(t, c.someday_project_ids, c.heading_to_project)
    /\ op' = "is_in"
    /\ runs' = 1
    /\ ctxGiven' = TRUE
    /\ UNCHANGED <<heap, arg, ret, before, input0, result1, projectsReply,
                   headingsReply, anytimeReply, fetched, error>>
    /\ UNCHANGED <<toolVars, authVars, listVars, writeVars>>

\* get_someday_context()
Call_get_someday_context ==
    /\ op = "idle"
    /\ \E pr \in ProjectsReplies, hr \in HeadingsReplies :
        \E order \in Orders(UuidsOf(OrEmpty(pr).items)) :
            LET r == get_someday_context(pr, hr, order) IN
            /\ projectsReply' = pr
            /\ headingsReply' = hr
            /\ ctx' = r.ctx
            /\ fetched' = r.fetched
            /\ error' = r.error
    /\ op' = "context"
    /\ runs' = 1
    /\ UNCHANGED <<todo, isin, heap, arg, ret, before, input0, result1, ctxGiven,
                   anytimeReply>>
    /\ UNCHANGED <<toolVars, authVars, listVars, writeVars>>

\* filter_someday_tasks(T, ctx) on a list T of the caller
Call_filter_someday_tasks ==
    /\ op = "idle"
    /\ \E T \in SeqsUpTo(Todos, MaxTodos), rc \in ResolvedContexts :
        LET r == filter_someday_tasks("L1" :> T, "L1", rc, "L2") IN
        /\ heap' = r.heap
        /\ arg' = "L1"
        /\ ret' = r.ret
        /\ before' = T
        /\ input0' = T
        /\ result1' = Contents(r.heap, r.ret)
        /\ ctxGiven' = rc.given
        /\ ctx' = rc.ctx
        /\ fetched' = r.fetched
        /\ error' = r.error
    /\ op' = "filter"
    /\ runs' = 1
    /\ UNCHANGED <<todo, isin, projectsReply, headingsReply, anytimeReply>>
    /\ UNCHANGED <<toolVars, authVars, listVars, writeVars>>

\* filter_someday_tasks(R, ctx) on the list R the first call returned, with
\* the context of the first call
Rerun_filter_someday_tasks ==
    /\ op = "filter"
    /\ runs = 1
    /\ error = "none"
    /\ LET rc == [given |-> ctxGiven, ctx |-> ctx, fetched |-> fetched, error |-> "none"]
           r == filter_someday_tasks(heap, ret, rc, "L3")
       IN
        /\ heap' = r.heap
        /\ arg' = ret
        /\ ret' = r.ret
        /\ before' = heap[ret]
        /\ fetched' = r.fetched
        /\ error' = r.error
    /\ runs' = 2
    /\ UNCHANGED <<op, todo, isin, input0, result1, ctxGiven, ctx, projectsReply,
                   headingsReply, anytimeReply>>
    /\ UNCHANGED <<toolVars, authVars, listVars, writeVars>>

\* augment_someday_tasks(S, ctx) on a list S of the caller
Call_augment_someday_tasks ==
    /\ op = "idle"
    /\ \E S \in SeqsUpTo(Todos, MaxTodos), rc \in ResolvedContexts :
        \E reply \in Replies(Todos, MaxTodos - Len(S)) :
            LET r == augment_someday_tasks("L1" :> S, "L1", rc, reply) IN
            /\ heap' = r.heap
            /\ arg' = "L1"
            /\ ret' = r.ret
            /\ before' = S
            /\ input0' = S
            /\ result1' = Contents(r.heap, r.ret)
            /\ ctxGiven' = rc.given
            /\ ctx' = rc.ctx
            /\ anytimeReply' = reply
            /\ fetched' = r.fetched
            /\ error' = r.error
    /\ op' = "augment"
    /\ runs' = 1
    /\ UNCHANGED <<todo, isin, projectsReply, headingsReply>>
    /\ UNCHANGED <<toolVars, authVars, listVars, writeVars>>

\* augment_someday_tasks(R, ctx) on the list R the first call returned, with
\* the context of the first call and the store replying as before
Rerun_augment_someday_tasks ==
    /\ op = "augment"
    /\ runs = 1
    /\ error = "none"
    /\ LET rc == [given |-> ctxGiven, ctx |-> ctx,
                  fetched |-> fetched \ {"anytime"}, error |-> "none"]
           r == augment_someday_tasks(heap, ret, rc, anytimeReply)
       IN
        /\ heap' = r.heap
        /\ arg' = ret
        /\ ret' = r.ret
        /\ before' = heap[ret]
        /\ fetched' = r.fetched
        /\ error' = r.error
    /\ runs' = 2
    /\ UNCHANGED <<op, todo, isin, input0, result1, ctxGiven, ctx, projectsReply,
                   headingsReply, anytimeReply>>
    /\ UNCHANGED <<toolVars, authVars, listVars, writeVars>>

Next ==
    \/ Call_is_in_someday_project
    \/ Call_get_someday_context
    \/ Call_filter_someday_tasks
    \/ Rerun_filter_someday_tasks
    \/ Call_augment_someday_tasks
    \/ Rerun_augment_someday_tasks

Spec == Init /\ [][Next]_vars

-----------------------------------------------------------------------------
(* The tools of server.py *)

\* Any store of at most max to-dos, no tool invoked yet.
AnyStore(max) ==
    /\ SomedayIdle
    /\ AuthIdle
    /\ ListsIdle
    /\ WritesIdle
    /\ projectStart \in [ProjIds -> ProjectStarts]
    /\ headingProject \in [StoreHeadIds -> ProjIds]
    /\ tasks \in Stores(max)
    /\ tool = "none"
    /\ toolArgs = DefaultArgs
    /\ output = <<>>
    /\ built = <<>>
    /\ rebuilt = FALSE

ToolsInit == AnyStore(MaxTasks)

\* In Things, the user moves a project to Someday or out of it.  The answer
\* of the last invocation is about the store as it was: it is dropped.
MoveProject ==
    /\ \E p \in ProjIds, st \in ProjectStarts :
        /\ st /= projectStart[p]
        /\ projectStart' = [projectStart EXCEPT ![p] = st]
    /\ tool' = "none"
    /\ toolArgs' = DefaultArgs
    /\ output' = <<>>
    /\ rebuilt' = FALSE
    /\ UNCHANGED <<headingProject, tasks, built, somedayVars, authVars, listVars, writeVars>>

\* In Things, the user moves a heading to another project.
MoveHeading ==
    /\ \E h \in StoreHeadIds, p \in ProjIds :
        /\ p /= headingProject[h]
        /\ headingProject' = [headingProject EXCEPT ![h] = p]
    /\ tool' = "none"
    /\ toolArgs' = DefaultArgs
    /\ output' = <<>>
    /\ rebuilt' = FALSE
    /\ UNCHANGED <<projectStart, tasks, built, somedayVars, authVars, listVars, writeVars>>

\* The tool name answered out to an invocation with the arguments args,
\* having built the context c.  (One invocation is followed per state of the
\* store, tool = "none": the server keeps nothing from one invocation to the
\* next.)
Answer(name, args, c, out) ==
    /\ tool' = name
    /\ toolArgs' = args
    /\ output' = out
    /\ built' = <<c>>
    /\ rebuilt' = (built /= <<>> /\ built[1] /= c)
    /\ UNCHANGED <<storeVars, somedayVars, authVars, listVars, writeVars>>

\* The tool name answered out; it built no context.
AnswerWithoutContext(name, args, out) ==
    /\ tool' = name
    /\ toolArgs' = args
    /\ output' = out
    /\ rebuilt' = FALSE
    /\ UNCHANGED <<built, storeVars, somedayVars, authVars, listVars, writeVars>>

\* A bug: the context kept from the invocation before and used again.
Call_get_today_cached ==
    /\ tool = "none"
    /\ \E c \in (IF built /= <<>> THEN {built[1]} ELSE StoreContexts(projectStart, headingProject)) :
           \E cz \in BOOLEAN, lim \in Limits :
               Answer("get_today", [DefaultArgs EXCEPT !.concise = cz, !.limit = lim], c,
                      get_today(tasks, c, cz, lim))

\* get_today(concise, limit)
Call_get_today ==
    /\ tool = "none"
    /\ \E c \in StoreContexts(projectStart, headingProject), cz \in BOOLEAN, lim \in Limits :
           Answer("get_today", [DefaultArgs EXCEPT !.concise = cz, !.limit = lim], c,
                  get_today(tasks, c, cz, lim))

\* get_upcoming(concise, limit)
Call_get_upcoming ==
    /\ tool = "none"
    /\ \E c \in StoreContexts(projectStart, headingProject), cz \in BOOLEAN, lim \in Limits :
           Answer("get_upcoming", [DefaultArgs EXCEPT !.concise = cz, !.limit = lim], c,
                  get_upcoming(tasks, c, cz, lim))

\* get_anytime(concise, limit)
Call_get_anytime ==
    /\ tool = "none"
    /\ \E c \in StoreContexts(projectStart, headingProject), cz \in BOOLEAN, lim \in Limits :
           Answer("get_anytime", [DefaultArgs EXCEPT !.concise = cz, !.limit = lim], c,
                  get_anytime(tasks, c, cz, lim))

\* get_someday(concise, limit)
Call_get_someday ==
    /\ tool = "none"
    /\ \E c \in StoreContexts(projectStart, headingProject), cz \in BOOLEAN, lim \in Limits :
           Answer("get_someday", [DefaultArgs EXCEPT !.concise = cz, !.limit = lim], c,
                  get_someday(tasks, c, cz, lim))

\* get_random_inbox(count)
Call_get_random_inbox ==
    /\ tool = "none"
    /\ \E n \in Counts :
           \E out \in get_random_inbox(tasks, n) :
               AnswerWithoutContext("get_random_inbox", [DefaultArgs EXCEPT !.count = n], out)

\* get_random_todos(project_uuid, count)
Call_get_random_todos ==
    /\ tool = "none"
    /\ \E pu \in ProjIds \cup {None}, n \in Counts :
           \E out \in get_random_todos(tasks, pu, n) :
               AnswerWithoutContext("get_random_todos",
                                    [DefaultArgs EXCEPT !.count = n, !.project_uuid = pu], out)

\* get_random_today(count)
Call_get_random_today ==
    /\ tool = "none"
    /\ \E c \in StoreContexts(projectStart, headingProject), n \in Counts :
           \E out \in get_random_today(tasks, c, n) :
               Answer("get_random_today", [DefaultArgs EXCEPT !.count = n], c, out)

\* get_random_anytime(count)
Call_get_random_anytime ==
    /\ tool = "none"
    /\ \E c \in StoreContexts(projectStart, headingProject), n \in Counts :
           \E out \in get_random_anytime(tasks, c, n) :
               Answer("get_random_anytime", [DefaultArgs EXCEPT !.count = n], c, out)

\* get_summary()
Call_get_summary ==
    /\ tool = "none"
    /\ \E c \in StoreContexts(projectStart, headingProject) :
           Answer("get_summary", DefaultArgs, c, get_summary(tasks, c))

ToolsNext ==
    \/ Call_get_today
    \/ Call_get_upcoming
    \/ Call_get_anytime
    \/ Call_get_someday
    \/ Call_get_random_inbox
    \/ Call_get_random_todos
    \/ Call_get_random_today
    \/ Call_get_random_anytime
    \/ Call_get_summary

\* The tools on a store as it is.
SpecTools == ToolsInit /\ [][ToolsNext]_vars

MovesInit == AnyStore(MaxMovedTasks)

MovesNext ==
    \/ MoveProject
    \/ MoveHeading
    \/ ToolsNext

\* The tools on a store the user changes between the invocations.
SpecMoves == MovesInit /\ [][MovesNext]_vars

-----------------------------------------------------------------------------
(* The HTTP transport: main() of server.py and the middleware of auth.py *)

\* The process starts in any environment.
AuthInit ==
    /\ SomedayIdle
    /\ ToolsIdle
    /\ ListsIdle
    /\ WritesIdle
    /\ environ \in Environs
    /\ _BEARER_TOKEN = NoneStr
    /\ _BEARER_CHECKED = FALSE
    /\ _API_KEY = NoneStr
    /\ scope = NoScope
    /\ response = "none"

\* main(), TRANSPORT == "http": get_bearer_token(), get_api_key(), and the
\* app run with the middleware list [BearerAuthMiddleware].
main ==
    /\ _API_KEY = NoneStr
    /\ LET bearer == get_bearer_token(environ, _BEARER_TOKEN, _BEARER_CHECKED) IN
        /\ _BEARER_TOKEN' = bearer.token
        /\ _BEARER_CHECKED' = bearer.checked
    /\ \E api_key \in get_api_key(environ, _API_KEY) : _API_KEY' = api_key
    /\ UNCHANGED <<environ, scope, response, somedayVars, toolVars, listVars, writeVars>>

\* One request to the running server: BearerAuthMiddleware.__call__, the
\* only middleware, then the app.
Call_BearerAuthMiddleware ==
    /\ _API_KEY /= NoneStr
    /\ response = "none"
    /\ \E sc \in Scopes :
        LET bearer == get_bearer_token(environ, _BEARER_TOKEN, _BEARER_CHECKED) IN
        /\ scope' = sc
        /\ _BEARER_TOKEN' = bearer.token
        /\ _BEARER_CHECKED' = bearer.checked
        /\ response' = BearerAuthMiddleware(sc, bearer.value)
    /\ UNCHANGED <<environ, _API_KEY, somedayVars, toolVars, listVars, writeVars>>

AuthNext ==
    \/ main
    \/ Call_BearerAuthMiddleware

SpecAuth == AuthInit /\ [][AuthNext]_vars

-----------------------------------------------------------------------------
(* The formatters, the entity tools and random_sample, one call each *)

ListsInit == SomedayIdle /\ ToolsIdle /\ AuthIdle /\ ListsIdle /\ WritesIdle

\* The call of f with the list l, limit (or count) n and concise cz returned r.
Returns(f, l, n, cz, r) ==
    /\ fn' = f
    /\ listArg' = l
    /\ limitArg' = n
    /\ conciseArg' = cz
    /\ result' = r
    /\ UNCHANGED <<somedayVars, toolVars, authVars, writeVars>>

\* format_todo_list(todos, concise, limit)
Call_format_todo_list ==
    /\ fn = "none"
    /\ \E todos \in SeqsUpTo(Items, MaxItems), cz \in BOOLEAN, n \in ListLimits :
           Returns("format_todo_list", todos, n, cz, format_todo_list(todos, cz, n))

\* format_project_list(projects, concise, limit)
Call_format_project_list ==
    /\ fn = "none"
    /\ \E projects \in SeqsUpTo(Items, MaxItems), cz \in BOOLEAN, n \in ListLimits :
           Returns("format_project_list", projects, n, cz, format_project_list(projects, cz, n))

\* get_areas(concise, limit)
Call_get_areas ==
    /\ fn = "none"
    /\ \E reply \in Replies(Items, MaxItems), cz \in BOOLEAN, n \in ListLimits :
           Returns("get_areas", OrEmpty(reply).items, n, cz, get_areas(reply, cz, n))

\* get_tags(limit)
Call_get_tags ==
    /\ fn = "none"
    /\ \E reply \in Replies(Items, MaxItems), n \in ListLimits :
           Returns("get_tags", OrEmpty(reply).items, n, TRUE, get_tags(reply, n))

\* json_export(limit)
Call_json_export ==
    /\ fn = "none"
    /\ \E reply \in Replies(Items, MaxItems), n \in ListLimits :
           Returns("json_export", OrEmpty(reply).items, n, TRUE, json_export(reply, n))

\* random_sample(items, count)
Call_random_sample ==
    /\ fn = "none"
    /\ \E its \in SeqsUpTo(Items, MaxItems), n \in ListLimits :
           \E sampled \in random_sample(its, n) :
               Returns("random_sample", its, n, TRUE, sampled)

ListsNext ==
    \/ Call_format_todo_list
    \/ Call_format_project_list
    \/ Call_get_areas
    \/ Call_get_tags
    \/ Call_json_export
    \/ Call_random_sample

SpecLists == ListsInit /\ [][ListsNext]_vars

-----------------------------------------------------------------------------
(* The write tools, show_in_things, json_import and run_applescript, one
   invocation each, Things and osascript behaving in every way they can *)

WritesInit == SomedayIdle /\ ToolsIdle /\ AuthIdle /\ ListsIdle /\ WritesIdle

\* The invocation of name with the arguments a did d.
Invoked(name, a, d) ==
    /\ cmd' = name
    /\ cmdArgs' = a
    /\ calls' = d.calls
    /\ osruns' = d.runs
    /\ tempfiles' = d.files
    /\ made' = d.made
    /\ outcome' = d.outcome
    /\ UNCHANGED <<somedayVars, toolVars, authVars, listVars>>

\* run_applescript(script)
Call_run_applescript ==
    /\ cmd = "none"
    /\ \E script \in Scripts :
           \E fate \in Fates(script) :
               LET r == run_applescript(tempfiles, script, fate) IN
               Invoked("run_applescript", NoArgs,
                       Did(<<>>, r.files, <<r>>, r.run.made, r.result))

\* add_todo(title, when, checklist_items)
Call_add_todo ==
    /\ cmd = "none"
    /\ \E w \in Whens, ci \in ChecklistItems, opens \in BOOLEAN :
           LET a == [NoArgs EXCEPT !.when = w, !.checklist_items = ci] IN
           \E fate \in Fates(add_todo_script(a)) :
               Invoked("add_todo", a, add_todo(tempfiles, a, fate, opens))

\* add_project(title, when)
Call_add_project ==
    /\ cmd = "none"
    /\ \E w \in Whens, opens \in BOOLEAN :
           LET a == [NoArgs EXCEPT !.when = w] IN
           \E fate \in Fates(add_project_script(a)) :
               Invoked("add_project", a, add_project(tempfiles, a, fate, opens))

\* update_todo(todo_id, when, completed, canceled)
Call_update_todo ==
    /\ cmd = "none"
    /\ \E w \in Whens, co \in Flags, ca \in Flags :
           LET a == [NoArgs EXCEPT !.when = w, !.completed = co, !.canceled = ca] IN
           \E fate \in Fates(update_todo_script(a)) :
               Invoked("update_todo", a, update_todo(tempfiles, a, fate))

\* update_project(project_id, when, completed, canceled)
Call_update_project ==
    /\ cmd = "none"
    /\ \E w \in Whens, co \in Flags, ca \in Flags :
           LET a == [NoArgs EXCEPT !.when = w, !.completed = co, !.canceled = ca] IN
           \E fate \in Fates(update_project_script(a)) :
               Invoked("update_project", a, update_project(tempfiles, a, fate))

\* show_in_things(item_id)
Call_show_in_things ==
    /\ cmd = "none"
    /\ \E fate1 \in Fates(show_script("show to do id")) :
           \E fate2 \in Fates(show_script("show project id")) :
               Invoked("show_in_things", NoArgs, show_in_things(tempfiles, fate1, fate2))

\* json_import(data)
Call_json_import ==
    /\ cmd = "none"
    /\ \E data \in SeqsUpTo(JsonTokens, MaxJsonTokens) :
           Invoked("json_import", [NoArgs EXCEPT !.data = data], json_import(tempfiles, data))

WritesNext ==
    \/ Call_run_applescript
    \/ Call_add_todo
    \/ Call_add_project
    \/ Call_update_todo
    \/ Call_update_project
    \/ Call_show_in_things
    \/ Call_json_import

SpecWrites == WritesInit /\ [][WritesNext]_vars

-----------------------------------------------------------------------------
(* What the claims speak of *)

\* The to-do has a non-empty identifier under key.
HasId(t, key) == key \in DOMAIN t /\ t[key] /= None /\ t[key] /= ""

\* _is_in_someday_project under the context c.
InSomeday(t, c) == _is_in_someday_project(t, c.someday_project_ids, c.heading_to_project)

\* The number of to-dos of s with identifier u.
Count(s, u) == Cardinality({i \in DOMAIN s : s[i].uuid = u})

\* The sub-sequence of s at the positions K, in the order of s.
Nth(K, i) == CHOOSE j \in K : Cardinality({x \in K : x <= j}) = i
Pick(s, K) == [i \in 1..Cardinality(K) |-> s[Nth(K, i)]]

\* The list the last call returned.
Returned == Contents(heap, ret)

\* The to-dos the Anytime fetch gave (none for None).
AnytimeTodos == IF anytimeReply.isNone THEN <<>> ELSE anytimeReply.items

\* The identifiers a reply of the store reports (none for None).
Reported(reply) == IF reply.isNone THEN {} ELSE UuidsOf(reply.items)

\* A call of f that returned.
Done(f) == op = f /\ runs >= 1 /\ error = "none"

-----------------------------------------------------------------------------
(* C1..C10 *)

\* C1: _is_in_someday_project returns true exactly when (a) the to-do has a
\* non-empty project id that is in someday_project_ids, or (b) it has a
\* non-empty heading id, no project id, and the heading id is a key of
\* heading_to_project; false in every other case.
C1_IsInExactly ==
    op = "is_in" =>
        (isin <=>
            \/ HasId(todo, "project") /\ todo.project \in ctx.someday_project_ids
            \/ /\ HasId(todo, "heading")
               /\ ~HasId(todo, "project")
               /\ todo.heading \in DOMAIN ctx.heading_to_project)

\* A to-do without project, under a heading of the map, found to be in a
\* Someday project.
C1_Witness ==
    /\ op = "is_in"
    /\ isin
    /\ ~HasId(todo, "project")
    /\ HasId(todo, "heading")
    /\ ctx.someday_project_ids /= {}

\* C2: with a non-empty someday_project_ids, filter_someday_tasks(T, C) is
\* exactly the sub-sequence of T, in T's order, of the to-dos for which
\* _is_in_someday_project is false.
C2_FilterIsSubsequence ==
    (Done("filter") /\ ctx.someday_project_ids /= {}) =>
        Returned = Pick(before, {j \in DOMAIN before : ~InSomeday(before[j], ctx)})

\* A list of two: the first inherits Someday through its heading and is
\* removed, the second is kept.
C2_Witness ==
    /\ Done("filter")
    /\ runs = 1
    /\ ctx.someday_project_ids /= {}
    /\ Len(before) = 2
    /\ ~HasId(before[1], "project")
    /\ InSomeday(before[1], ctx)
    /\ Returned = <<before[2]>>

\* C3: with a non-empty someday_project_ids, augment_someday_tasks(S, C)
\* returns S as an unchanged prefix followed by exactly the to-dos of the
\* Anytime reply whose id is not in S and for which _is_in_someday_project is
\* true, in the reply's order.
C3_AugmentAppendsInherited ==
    (Done("augment") /\ ctx.someday_project_ids /= {}) =>
        Returned = before \o Pick(AnytimeTodos,
            {j \in DOMAIN AnytimeTodos :
                /\ AnytimeTodos[j].uuid \notin UuidsOf(before)
                /\ InSomeday(AnytimeTodos[j], ctx)})

\* One to-do passed, one Anytime to-do of a Someday project appended after it.
C3_Witness ==
    /\ Done("augment")
    /\ runs = 1
    /\ Len(before) = 1
    /\ Len(AnytimeTodos) = 1
    /\ Returned = <<before[1], AnytimeTodos[1]>>
    /\ before[1].uuid /= AnytimeTodos[1].uuid

\* C4: when someday_project_ids is empty, filter_someday_tasks(T, C) = T and
\* augment_someday_tasks(T, C) = T whatever heading_to_project is, and
\* augment_someday_tasks does not fetch Anytime.
C4_NoOpOnEmptySomedaySet ==
    ((op = "filter" \/ op = "augment") /\ ctx.someday_project_ids = {}) =>
        /\ error = "none"
        /\ ret = arg
        /\ Returned = before
        /\ "anytime" \notin fetched

\* augment_someday_tasks with no Someday project, a heading_to_project that
\* is not empty and an Anytime to-do under one of its headings: not added.
C4_Witness ==
    /\ Done("augment")
    /\ runs = 1
    /\ ctx.someday_project_ids = {}
    /\ Len(before) = 1
    /\ Len(AnytimeTodos) = 1
    /\ AnytimeTodos[1].uuid /= before[1].uuid
    /\ ~HasId(AnytimeTodos[1], "project")
    /\ HasId(AnytimeTodos[1], "heading")
    /\ AnytimeTodos[1].heading \in DOMAIN ctx.heading_to_project

\* C5: an identifier present in the input of augment_someday_tasks occurs in
\* the result as often as in the input, after one call and after the call
\* re-run on its own result with the same context and Anytime reply.
C5_NoDuplicateOfPresent ==
    Done("augment") =>
        \A u \in UuidsOf(input0) : Count(Returned, u) = Count(input0, u)

\* The re-run done, the Anytime reply holding a to-do of a Someday project
\* whose identifier was in the input.
C5_Witness ==
    /\ Done("augment")
    /\ runs = 2
    /\ ctx.someday_project_ids /= {}
    /\ \E j \in DOMAIN AnytimeTodos :
        /\ AnytimeTodos[j].uuid \in UuidsOf(input0)
        /\ InSomeday(AnytimeTodos[j], ctx)

\* C6: filter_someday_tasks(filter_someday_tasks(T, C), C) =
\* filter_someday_tasks(T, C).
C6_FilterIdempotent ==
    (Done("filter") /\ runs = 2) => Returned = result1

\* The second call done on a list the first call had shortened to one to-do.
C6_Witness ==
    /\ Done("filter")
    /\ runs = 2
    /\ Len(input0) = 2
    /\ Len(result1) = 1

\* C7: a to-do whose project id is set to a project not in
\* someday_project_ids is not in a Someday project, whatever its heading.
C7_GuardPrecedence ==
    (op = "is_in" /\ HasId(todo, "project") /\ todo.project \notin ctx.someday_project_ids)
        => ~isin

\* Scenario E: the project is not Someday, the heading is mapped to a project
\* that is.
C7_Witness ==
    /\ op = "is_in"
    /\ HasId(todo, "project")
    /\ todo.project \notin ctx.someday_project_ids
    /\ HasId(todo, "heading")
    /\ todo.heading \in DOMAIN ctx.heading_to_project
    /\ ctx.heading_to_project[todo.heading] \in ctx.someday_project_ids
    /\ ~isin

\* A context get_someday_context() built: by a call of it, or by the call
\* nested in filter_someday_tasks / augment_someday_tasks when ctx is None.
ContextBuilt == op = "context" \/ ((op = "filter" \/ op = "augment") /\ ~ctxGiven)

\* C8: in every context get_someday_context returns, each key of
\* heading_to_project maps to a member of someday_project_ids.
C8_ContextInvariant ==
    ContextBuilt =>
        \A h \in DOMAIN ctx.heading_to_project :
            ctx.heading_to_project[h] \in ctx.someday_project_ids

\* Two Someday projects, and a heading the store reports under both.
C8_Witness ==
    /\ op = "context"
    /\ error = "none"
    /\ ctx.someday_project_ids = ProjIds
    /\ \E h \in HeadIds : \A p \in ProjIds : h \in Reported(headingsReply[p])
    /\ DOMAIN ctx.heading_to_project /= {}

\* C9: get_someday_context raises nothing; someday_project_ids is the set of
\* the projects the store reports as Someday; the keys of heading_to_project
\* are exactly the headings the store reports for those projects, each mapped
\* to a Someday project the store reports it under; with no Someday project
\* reported (an empty or a None reply) both are empty.
C9_ContextIsWhatStoreReports ==
    op = "context" =>
        /\ error = "none"
        /\ ctx.someday_project_ids = Reported(projectsReply)
        /\ DOMAIN ctx.heading_to_project =
             UNION {Reported(headingsReply[p]) : p \in Reported(projectsReply)}
        /\ \A h \in DOMAIN ctx.heading_to_project :
             /\ ctx.heading_to_project[h] \in Reported(projectsReply)
             /\ h \in Reported(headingsReply[ctx.heading_to_project[h]])
        /\ (projectsReply.isNone \/ projectsReply.items = <<>>) => ctx = NoContext

\* Two Someday projects, each reported with a heading of its own.
C9_Witness ==
    /\ op = "context"
    /\ error = "none"
    /\ ctx.someday_project_ids = ProjIds
    /\ \E h1, h2 \in HeadIds :
        /\ h1 /= h2
        /\ ctx.heading_to_project = (h1 :> "P1" @@ h2 :> "P2")

\* C10: after augment_someday_tasks the list passed in as someday_todos holds
\* exactly the elements it held before the call.
C10_AugmentLeavesArgument ==
    op = "augment" => heap[arg] = before

-----------------------------------------------------------------------------
\* C11: augment_someday_tasks is idempotent on a fixed store snapshot: called
\* again on the list the first call returned, with the same context and the
\* same Anytime reply, it returns a list equal to the first result; the
\* caller's list S, passed twice, gives equal results.
C11_AugmentIdempotent ==
    (Done("augment") /\ runs = 2) =>
        /\ Returned = result1
        /\ heap[arg] = result1

\* The first call appended an inherited to-do, and the call was repeated.
C11_Witness ==
    /\ Done("augment")
    /\ runs = 2
    /\ Len(result1) > Len(input0)

-----------------------------------------------------------------------------
\* The store calls that are augment_someday_tasks' own: things.anytime(),
\* made when the context has a Someday project.
OwnFetches ==
    IF op = "augment" /\ ctx.someday_project_ids /= {} THEN {"anytime"} ELSE {}

\* C12 as stated: filter_someday_tasks and augment_someday_tasks make no
\* call of the store, whatever their arguments.
C12_NoFetchAtAll ==
    (op = "filter" \/ op = "augment") => fetched = {}

\* C12, amended: passed a context, filter_someday_tasks makes no call of the
\* store and augment_someday_tasks makes only the Anytime call, and makes it
\* exactly when the context has a Someday project; with the context left out
\* the calls of get_someday_context (projects, headings) come on top.
C12_FetchesOnlyAnytime ==
    (Done("filter") \/ Done("augment")) =>
        IF ctxGiven
        THEN fetched = OwnFetches
        ELSE /\ "projects" \in fetched
             /\ fetched \ {"projects", "headings"} = OwnFetches

\* augment_someday_tasks was passed a context and fetched the Anytime list.
C12_Witness ==
    /\ Done("augment")
    /\ runs = 1
    /\ ctxGiven
    /\ fetched = {"anytime"}
    /\ Len(Returned) > Len(input0)

-----------------------------------------------------------------------------
(* What the claims about the tools speak of *)

\* In the store, the to-do's project, or the project of its heading, is in
\* Someday.
InheritsSomeday(t) ==
    \/ t.project /= None /\ projectStart[t.project] = "Someday"
    \/ t.heading /= None /\ projectStart[headingProject[t.heading]] = "Someday"

\* The to-dos the text shows, line by line.
ShownUuids(out) ==
    LET IsItem(l) == l.kind = "item"
        xs == SelectSeq(out, IsItem)
    IN [i \in DOMAIN xs |-> xs[i].uuid]

\* The to-dos of a start bucket that do not inherit Someday, in store order.
Active(start) ==
    LET Keeps(t) == t.start = start /\ ~InheritsSomeday(t)
        xs == SelectSeq(tasks, Keeps)
    IN [i \in DOMAIN xs |-> xs[i].uuid]

\* The lines of a kind in the text.
LinesOf(out, kind) == {out[i] : i \in {j \in DOMAIN out : out[j].kind = kind}}

-----------------------------------------------------------------------------
\* The tools that build a Someday context.
ContextTools ==
    {"get_today", "get_upcoming", "get_anytime", "get_someday", "get_random_today",
     "get_random_anytime", "get_summary"}

\* C13: every invocation of get_today, get_upcoming, get_anytime,
\* get_someday, get_random_today, get_random_anytime and get_summary builds
\* its context from the store as it is when the tool is invoked: the Someday
\* projects of the store and the headings of those projects, whatever context
\* an earlier invocation built.
C13_ContextOfTheStoreNow ==
    tool \in ContextTools =>
        /\ built /= <<>>
        /\ built[1].someday_project_ids = {p \in ProjIds : projectStart[p] = "Someday"}
        /\ \A h \in HeadIds :
            IF h \in StoreHeadIds /\ projectStart[headingProject[h]] = "Someday"
            THEN Get(built[1].heading_to_project, h) = headingProject[h]
            ELSE h \notin DOMAIN built[1].heading_to_project

\* A tool answered after the store changed, with another context than the
\* invocation before it.
C13_Witness ==
    /\ tool = "get_today"
    /\ rebuilt
    /\ built[1].someday_project_ids /= {}

-----------------------------------------------------------------------------
\* C14: the list get_someday returns (limit not reached) holds every to-do
\* whose start is Someday and every to-do that inherits Someday from its
\* project, directly or through a heading, whether the store reports it
\* under Today, Upcoming or Anytime.
C14_SomedayViewComplete ==
    (tool = "get_someday" /\ toolArgs.limit = DEFAULT_LIMIT) =>
        \A i \in DOMAIN tasks :
            (tasks[i].start = "Someday" \/ InheritsSomeday(tasks[i])) =>
                \E j \in DOMAIN output :
                    output[j].kind = "item" /\ output[j].uuid = tasks[i].uuid

-----------------------------------------------------------------------------
\* The bucket a filtering tool lists.
BucketOf(name) ==
    CASE name \in {"get_today", "get_random_today"} -> "Today"
      [] name = "get_upcoming" -> "Upcoming"
      [] OTHER -> "Anytime"

\* C15: in get_today, get_upcoming, get_anytime, get_random_today,
\* get_random_anytime and get_summary the Someday filter comes before the
\* limit, the sampling and the counting: no to-do that inherits Someday is
\* shown; with limit >= 1 the to-dos shown are the first min(limit, n) of the
\* n to-dos left by the filter; a "more" line gives n minus the number shown,
\* a "Showing" line and a "Random k of total" header give n; get_summary
\* counts the to-dos left by the filter.
C15_FilterBeforeLimit ==
    /\ tool \in {"get_today", "get_upcoming", "get_anytime"} =>
        LET kept == Active(BucketOf(tool))
            shown == ShownUuids(output)
        IN /\ \A i \in DOMAIN tasks :
                InheritsSomeday(tasks[i]) =>
                    \A j \in DOMAIN shown : shown[j] /= tasks[i].uuid
           /\ toolArgs.limit >= 1 =>
                shown = SubSeq(kept, 1, IF toolArgs.limit < Len(kept)
                                        THEN toolArgs.limit ELSE Len(kept))
           /\ \A l \in LinesOf(output, "more") : l.n = Len(kept) - Len(shown)
           /\ \A l \in LinesOf(output, "showing") : l.total = Len(kept)
           /\ (toolArgs.limit >= 1 /\ toolArgs.concise) =>
                (LinesOf(output, "more") /= {} <=> Len(kept) > toolArgs.limit)
    /\ tool \in {"get_random_today", "get_random_anytime"} =>
        LET kept == Active(BucketOf(tool))
            shown == ShownUuids(output)
        IN /\ \A j \in DOMAIN shown : \E i \in DOMAIN kept : shown[j] = kept[i]
           /\ \A l \in LinesOf(output, "random") :
                l.total = Len(kept) /\ l.k = Len(shown)
           /\ LinesOf(output, "random") /= {}
    /\ tool = "get_summary" =>
        \A l \in LinesOf(output, "count") :
            l.what \in {"Today", "Upcoming", "Anytime"} => l.n = Len(Active(l.what))

\* get_today with limit 1 on a store whose Today list has an inherited-Someday
\* to-do first and another to-do after it: the second is shown.
C15_Witness ==
    /\ tool = "get_today"
    /\ toolArgs.limit = 1
    /\ toolArgs.concise
    /\ Len(tasks) = 2
    /\ tasks[1].start = "Today" /\ InheritsSomeday(tasks[1])
    /\ tasks[2].start = "Today" /\ ~InheritsSomeday(tasks[2])
    /\ ShownUuids(output) = <<tasks[2].uuid>>

-----------------------------------------------------------------------------
(* What the claims about the HTTP transport speak of *)

\* The token configured: THINGS_MCP_API_TOKEN without the blanks around it,
\* empty when the variable is unset or blank.
Configured == strip(EnvGet(environ, "THINGS_MCP_API_TOKEN", <<>>))

\* The header is "Bearer " in any case followed by the token.
IsBearerWith(auth, token) ==
    /\ auth /= NoneStr
    /\ Len(auth) = 7 + Len(token)
    /\ \A i \in 1..7 : auth[i] \in {Bearer_[i], <<"B", "E", "A", "R", "E", "R", " ">>[i]}
    /\ SubSeq(auth, 8, Len(auth)) = token

\* The request carries the API key, in the X-API-Key header or in the
\* api_key query parameter.
CarriesApiKey == scope.x_api_key = _API_KEY \/ scope.api_key = _API_KEY

\* C16: with THINGS_MCP_API_TOKEN set to a non-blank value, an http or
\* websocket request is passed to the app if and only if its Authorization
\* header is "Bearer " (scheme in any case) followed by the token, and every
\* other such request gets the 401 {"error": "Unauthorized"}; with the
\* variable unset or blank, and for every other scope type, the request is
\* passed to the app.
C16_BearerOr401 ==
    response /= "none" =>
        IF Configured /= <<>> /\ scope.type \in {"http", "websocket"}
        THEN IF IsBearerWith(scope.authorization, Configured)
             THEN response = "app"
             ELSE response = "401 Unauthorized"
        ELSE response = "app"

-----------------------------------------------------------------------------
\* C17: with bearer auth not active an http request is served only if it
\* carries the API key (X-API-Key header or api_key query parameter); with
\* bearer auth active the API key is not looked at: a request with the right
\* bearer token is served whatever key it carries.
C17_ApiKeyEnforced ==
    (response /= "none" /\ scope.type = "http") =>
        IF Configured = <<>>
        THEN response = "app" => CarriesApiKey
        ELSE (IsBearerWith(scope.authorization, Configured) /\ response /= "TypeError")
                => response = "app"

-----------------------------------------------------------------------------
(* What the claims about the lists speak of *)

Min(a, b) == IF a < b THEN a ELSE b
Max(a, b) == IF a > b THEN a ELSE b

\* The number of items the text renders, and the number its "more" line
\* says are left out (0 without such a line).
Rendered(out) == Cardinality({i \in DOMAIN out : out[i].kind \in {"item", "entry"}})
LeftOut(out) ==
    IF \E i \in DOMAIN out : out[i].kind = "more"
    THEN (CHOOSE l \in LinesOf(out, "more") : TRUE).n
    ELSE 0

\* C18: format_todo_list in concise mode with limit >= 1 renders, for a list
\* of total > 0 to-dos, the first min(limit, total) to-dos, one line each, in
\* the order of the list, followed by one "more" line giving
\* total - min(limit, total) if total > limit and by nothing otherwise; for
\* the empty list it returns "No items found." in both modes.
C18_ConciseList ==
    fn = "format_todo_list" =>
        LET total == Len(listArg)
            k == Min(limitArg, total)
        IN /\ total = 0 => result = <<[kind |-> "none", what |-> "items"]>>
           /\ (total > 0 /\ conciseArg /\ limitArg >= 1) =>
                /\ Len(result) = k + (IF total > limitArg THEN 1 ELSE 0)
                /\ \A i \in 1..k :
                    /\ result[i].kind = "item"
                    /\ result[i].form = "concise"
                    /\ result[i].uuid = listArg[i].uuid
                /\ total > limitArg => result[k + 1] = [kind |-> "more", n |-> total - k]

\* A list of three to-dos rendered with limit 2: two lines and "1 more".
C18_Witness ==
    /\ fn = "format_todo_list"
    /\ conciseArg
    /\ limitArg = 2
    /\ Len(listArg) = 3
    /\ Len(result) = 3
    /\ result[3].kind = "more"

-----------------------------------------------------------------------------
\* C19: for every integer limit, zero and negative included, and every list,
\* format_todo_list, format_project_list, get_areas, get_tags and json_export
\* render at most max(limit, 0) items, and where a tool reports the items it
\* left out (the concise "more" line) the items rendered and the items left
\* out add up to the length of the list.
C19_HardLimit ==
    fn \in {"format_todo_list", "format_project_list", "get_areas", "get_tags", "json_export"} =>
        /\ Rendered(result) <= Max(limitArg, 0)
        /\ (fn /= "json_export" /\ (conciseArg \/ fn = "get_areas")) =>
                Rendered(result) + LeftOut(result) = Len(listArg)

-----------------------------------------------------------------------------
\* C20: random_sample(items, count) returns the empty list when count <= 0;
\* the items themselves, in their order, when len(items) <= count; otherwise
\* count elements of items taken from pairwise distinct positions.
C20_RandomSample ==
    fn = "random_sample" =>
        IF limitArg <= 0 THEN result = <<>>
        ELSE IF Len(listArg) <= limitArg THEN result = listArg
        ELSE /\ Len(result) = limitArg
             /\ \E pos \in [1..limitArg -> DOMAIN listArg] :
                 /\ \A i, j \in 1..limitArg : i /= j => pos[i] /= pos[j]
                 /\ \A i \in 1..limitArg : result[i] = listArg[pos[i]]

\* Two of three different items, the third before the first.
C20_Witness ==
    /\ fn = "random_sample"
    /\ limitArg = 2
    /\ Len(listArg) = 3
    /\ listArg[1] /= listArg[3]
    /\ result = <<listArg[3], listArg[1]>>

-----------------------------------------------------------------------------
\* The list a sampling tool draws from: the Inbox, the Today or Anytime
\* to-dos the Someday filter leaves, the to-dos of the project asked for.
SourceOf(name, args) ==
    CASE name = "get_random_inbox" ->
           LET InInbox(t) == t.start = "Inbox"
               xs == SelectSeq(tasks, InInbox)
           IN [i \in DOMAIN xs |-> xs[i].uuid]
      [] name = "get_random_todos" ->
           LET Wanted(t) == args.project_uuid = None \/ t.project = args.project_uuid
               xs == SelectSeq(tasks, Wanted)
           IN [i \in DOMAIN xs |-> xs[i].uuid]
      [] OTHER -> Active(BucketOf(name))

\* C21: get_random_inbox, get_random_today, get_random_anytime and
\* get_random_todos return a header "Random k of total ... items:" followed
\* by item lines only; total is the size of the (filtered) source list, k is
\* the number of item lines that follow, and k = min(max(count, 0), total).
C21_RandomHeader ==
    tool \in {"get_random_inbox", "get_random_today", "get_random_anytime", "get_random_todos"} =>
        LET total == Len(SourceOf(tool, toolArgs)) IN
        /\ Len(output) >= 1
        /\ output[1].kind = "random"
        /\ output[1].total = total
        /\ output[1].k = Len(output) - 1
        /\ \A i \in 2..Len(output) : output[i].kind = "item"
        /\ output[1].k = Min(Max(toolArgs.count, 0), total)

\* get_random_today with count 1 on a Today list of two, one of which
\* inherits Someday: "Random 1 of 1".
C21_Witness ==
    /\ tool = "get_random_today"
    /\ toolArgs.count = 1
    /\ Len(tasks) = 2
    /\ \A i \in 1..2 : tasks[i].start = "Today"
    /\ Len(Active("Today")) = 1
    /\ output[1].k = 1
    /\ output[1].total = 1

-----------------------------------------------------------------------------
(* What the claims about the write tools speak of *)

\* The function of applescript.py and the function of url_scheme.py a write
\* tool calls.
BridgeOf(name) ==
    CASE name = "add_todo" -> "applescript.add_todo"
      [] name = "add_project" -> "applescript.add_project"
      [] name = "update_todo" -> "applescript.update_todo"
      [] name = "update_project" -> "applescript.update_project"
      [] OTHER -> "applescript.show_in_things"
UrlOf(name) ==
    CASE name = "add_todo" -> "url_scheme.add_todo_url"
      [] name = "add_project" -> "url_scheme.add_project_url"
      [] name = "update_todo" -> "url_scheme.update_todo_url"
      [] name = "update_project" -> "url_scheme.update_project_url"
      [] OTHER -> "url_scheme.show_url"

\* How often f was called.
Called(f) == Cardinality({i \in DOMAIN calls : calls[i] = f})

\* The call of the bridge raised RuntimeError or returned "Error: ...".
BridgeFailed ==
    /\ osruns /= <<>>
    /\ LET r == osruns[Len(osruns)].result IN
         \/ r.kind = "raise" /\ r.value = <<"RuntimeError">>
         \/ r.kind = "return" /\ startswith(r.value, <<"Error:">>)

\* checklist_items is a non-empty list.
WithChecklist == cmdArgs.checklist_items \notin {NoneStr, <<>>}

\* C22: add_todo without checklist_items, add_project, update_todo and
\* update_project call the AppleScript bridge exactly once, and first; they
\* call the URL scheme if and only if the bridge raised RuntimeError or
\* returned a string starting with "Error:", and then exactly once; they
\* return to their caller, never raise.  add_todo with a non-empty
\* checklist_items calls the URL scheme only.
C22_AppleScriptThenUrl ==
    cmd \in {"add_todo", "add_project", "update_todo", "update_project"} =>
        IF cmd = "add_todo" /\ WithChecklist
        THEN /\ Called(BridgeOf(cmd)) = 0
             /\ osruns = <<>>
             /\ Called(UrlOf(cmd)) = 1
             /\ outcome.kind = "return"
        ELSE /\ Called(BridgeOf(cmd)) = 1
             /\ calls[1] = BridgeOf(cmd)
             /\ Len(osruns) = 1
             /\ Called(UrlOf(cmd)) = (IF BridgeFailed THEN 1 ELSE 0)
             /\ Called("_execute_url") = Called(UrlOf(cmd))
             /\ outcome.kind = "return"

\* add_todo without checklist items, the script having returned "Error: ..."
\* from its on error clause: the URL scheme called after the bridge.
C22_Witness ==
    /\ cmd = "add_todo"
    /\ ~WithChecklist
    /\ osruns[1].run.returncode = 0
    /\ ~osruns[1].run.timedOut
    /\ BridgeFailed
    /\ calls = <<"applescript.add_todo", "url_scheme.add_todo_url", "_execute_url">>

-----------------------------------------------------------------------------
\* The number a line of get_summary gives.
CountOf(out, what) == (CHOOSE l \in LinesOf(out, "count") : l.what = what).n

\* C23: under one snapshot of the store and a context with a Someday
\* project, every to-do of the raw Anytime list whose id is not in the raw
\* Someday list is in exactly one of the filtered Anytime view and the
\* augmented Someday view, once; and the Anytime and the Someday count of
\* get_summary add up to the number of distinct to-dos of the two raw lists.
C23_AnytimeSomedayPartition ==
    (tool = "get_summary" /\ built[1].someday_project_ids /= {}) =>
        LET c == built[1]
            rawAnytime == things_list(tasks, "Anytime")
            rawSomeday == things_list(tasks, "Someday")
            viewAnytime == Filtered(rawAnytime, c)
            viewSomeday == Augmented(rawSomeday, c, rawAnytime)
        IN /\ \A u \in UuidsOf(rawAnytime.items) \ UuidsOf(rawSomeday.items) :
                Count(viewAnytime, u) + Count(viewSomeday, u) = 1
           /\ CountOf(output, "Anytime") = Len(viewAnytime)
           /\ CountOf(output, "Someday") = Len(viewSomeday)
           /\ CountOf(output, "Anytime") + CountOf(output, "Someday")
                = Cardinality(UuidsOf(rawAnytime.items) \cup UuidsOf(rawSomeday.items))

\* Two Anytime to-dos, one of them in a Someday project: get_summary counts
\* one under Anytime and one under Someday.
C23_Witness ==
    /\ tool = "get_summary"
    /\ built[1].someday_project_ids /= {}
    /\ Len(tasks) = 2
    /\ \A i \in 1..2 : tasks[i].start = "Anytime"
    /\ InheritsSomeday(tasks[1])
    /\ ~InheritsSomeday(tasks[2])
    /\ CountOf(output, "Anytime") = 1
    /\ CountOf(output, "Someday") = 1

-----------------------------------------------------------------------------
\* C24: an invocation of add_todo or add_project makes at most one item in
\* Things, however the AppleScript run goes: every statement done, an
\* "Error:" result from a statement after the "make new" statement, a
\* non-zero exit of osascript, a timeout.
C24_AtMostOneItem ==
    cmd \in {"add_todo", "add_project"} => made <= 1

-----------------------------------------------------------------------------
\* No identifier occurs twice in the list.
NoDuplicates(s) == \A i, j \in DOMAIN s : s[i].uuid = s[j].uuid => i = j

-----------------------------------------------------------------------------
\* The to-dos of the list.
ElementsOf(s) == {s[i] : i \in DOMAIN s}

\* C26: filter_someday_tasks never modifies the list it is given and never
\* introduces a to-do: after the call, returned or raised, the list passed in
\* holds what it held before; when the call returned, every element of the
\* result is an element of the input and the result is no longer than the
\* input, for every input and every context, given or fetched.
C26_FilterFrame ==
    op = "filter" =>
        /\ heap[arg] = before
        /\ error = "none" =>
               /\ ElementsOf(Returned) \subseteq ElementsOf(before)
               /\ Len(Returned) <= Len(before)

\* A call that removed one to-do of two: the result is a new, shorter list
\* and the list passed in still holds both.
C26_Witness ==
    /\ Done("filter")
    /\ runs = 1
    /\ Len(before) = 2
    /\ Len(Returned) = 1
    /\ ret /= arg
    /\ Len(heap[arg]) = 2

-----------------------------------------------------------------------------
\* Both reveals of applescript.show_in_things, as a to-do and as a project,
\* raised RuntimeError in run_applescript.
BothRevealsFailed ==
    /\ cmd = "show_in_things"
    /\ Len(osruns) = 2
    /\ \A i \in 1..2 : osruns[i].result = Raise("RuntimeError")

\* C27: whenever both AppleScript reveals of show_in_things fail,
\* url_scheme.show_url is called for the item and the tool reports that the
\* item was revealed via the URL scheme.
C27_ShowFallsBackToUrl ==
    BothRevealsFailed =>
        /\ Called("url_scheme.show_url") = 1
        /\ outcome = Return(<<"Revealed", "in Things via URL scheme.">>)

-----------------------------------------------------------------------------
\* C28: json_import returns "Invalid JSON: ..." for a text that is no JSON
\* and "JSON must be an array of objects." for a JSON value that is no list,
\* executing no URL command in either case; for a parsed list it calls
\* url_scheme.json_import exactly once and reports the length of the list as
\* the number of items imported.
C28_JsonImportRejectsBadInput ==
    cmd = "json_import" =>
        LET parsed == json_loads(cmdArgs.data) IN
        IF ~parsed.ok
        THEN outcome = Return(<<"Invalid JSON:">>) /\ calls = <<>>
        ELSE IF parsed.kind /= "list"
        THEN outcome = Return(<<"JSON must be an array of objects.">>) /\ calls = <<>>
        ELSE /\ Called("url_scheme.json_import") = 1
             /\ outcome = Return(<<"Imported", ToString(Len(parsed.items)), "items via JSON.">>)

-----------------------------------------------------------------------------
\* C29: run_applescript leaves no temp file behind, whether it returns or
\* raises; it returns the stripped stdout exactly when osascript ended in
\* time with exit code 0, and raises RuntimeError on a non-zero exit code and
\* on a timeout.  This holds for the direct call and for every call a tool
\* makes through the bridge.
C29_NoTempFileLeft ==
    cmd /= "none" =>
        /\ tempfiles = {}
        /\ \A i \in DOMAIN osruns :
               LET r == osruns[i] IN
               IF ~r.run.timedOut /\ r.run.returncode = 0
               THEN r.result = Return(strip(r.run.stdout))
               ELSE r.result = Raise("RuntimeError")

\* A run that timed out: RuntimeError raised and the temp file removed.
C29_Witness ==
    /\ cmd = "run_applescript"
    /\ osruns[1].run.timedOut
    /\ outcome = Raise("RuntimeError")
    /\ tempfiles = {}

-----------------------------------------------------------------------------
\* The statements of the script that set the status, in order.
StatusStatements(steps) ==
    SelectSeq(steps, LAMBDA st : st \in {"set status to completed", "set status to open",
                                         "set status to canceled"})

\* The last of them; None when there is none.
LastStatus(steps) ==
    LET sts == StatusStatements(steps) IN
    IF sts = <<>> THEN None ELSE sts[Len(sts)]

\* C30: the last status statement of the script of update_todo and of
\* update_project is "canceled" when canceled is True; otherwise "completed"
\* when completed is True (canceled=False does not override it with "open");
\* otherwise "open" when completed is False or canceled is False; and there
\* is no status statement when both are None.
C30_LastStatusStatement ==
    cmd \in {"update_todo", "update_project"} =>
        LET steps == osruns[1].script.steps IN
        IF cmdArgs.canceled = "True" THEN LastStatus(steps) = "set status to canceled"
        ELSE IF cmdArgs.completed = "True" THEN LastStatus(steps) = "set status to completed"
        ELSE IF cmdArgs.completed = "False" \/ cmdArgs.canceled = "False"
        THEN LastStatus(steps) = "set status to open"
        ELSE StatusStatements(steps) = <<>>

\* update_todo(completed=True, canceled=False): the script sets the status
\* once, to completed.
C30_Witness ==
    /\ cmd = "update_todo"
    /\ cmdArgs.completed = "True"
    /\ cmdArgs.canceled = "False"
    /\ StatusStatements(osruns[1].script.steps) = <<"set status to completed">>

====
